---- MODULE Spec2Model ----
(***************************************************************************)
(* Model of the Honeywell DataUpdateCoordinator                            *)
(* (custom_components/honeywell/coordinator.py): the poll cycle            *)
(* _async_update_data with its re-login ladder, the parallel device        *)
(* refresh of _async_refresh_devices and the stale-data fallback of        *)
(* _handle_transient_error.                                                *)
(***************************************************************************)
EXTENDS Integers, Sequences, FiniteSets, TLC

\* ---------------------------------------------------------------- bounds
\* Largest value a device field can take (fields range over 0..MaxVal).
MaxVal == 1
\* Largest number of refresh calls in flight on one device at a time.
MaxInFlight == 2
\* Largest number of setup attempts on one config entry.
MaxAttempts == 2

\* ------------------------------------------------------------ data model
\* The devices of the account.  Setup hands those that discovery found to
\* the coordinator's constructor (a non-empty dict: setup returns early when
\* discovery found none).
Devices == {"d1", "d2"}

Values == 0..MaxVal

\* coordinator.data is None until a cycle has returned, then it is the very
\* dict object self.devices (the cycle returns self.devices).
NULL == "None"
DEVICES == "self.devices"

\* An optional snapshot: <<>> when there is none, <<f>> for the device data f.
NoSnapshot == <<>>

Snap(f) == <<f>>

Snapshots ==
    {NoSnapshot} \cup {Snap(f) : f \in UNION {[ds -> Values] : ds \in SUBSET Devices}}

\* --------------------------------------------------------- exception model
\* str(ex) of an exception, as a sequence of words.
Messages ==
    { <<>>,
      <<"Incorrect", "password">>,
      <<"Null", "cookie", "connection", "error", "200">>,
      <<"cookie", "Null">>,
      <<"Error:", "Null", "cookie">> }

\* An exception: its class and its message. The classes the coordinator
\* names in its except clauses are unrelated to each other: in particular
\* UnauthorizedError (raised by refresh on a 401) is not an AuthError (raised
\* by login), so `except AuthError` does not take an UnauthorizedError.
Exc(t, m) == [type |-> t, msg |-> m]

OK == Exc("ok", <<>>)

TRANSIENT_ERRORS ==
    {"TimeoutError", "ConnectionError", "APIRateLimited", "ClientConnectionError"}

\* What client.login() can do: succeed, reject with an AuthError carrying
\* some message, or fail with a transient error.
LoginResponses ==
    {OK} \cup {Exc("AuthError", m) : m \in Messages}
         \cup {Exc(t, <<>>) : t \in TRANSIENT_ERRORS}

\* What device.refresh() can do: succeed, 401 (UnauthorizedError), fail with
\* a transient error, or fail with a malformed response (UnexpectedResponse).
RefreshResponses ==
    {OK} \cup {Exc("UnauthorizedError", <<>>), Exc("UnexpectedResponse", <<>>)}
         \cup {Exc(t, <<>>) : t \in TRANSIENT_ERRORS}

\* The answers of a scripted site: one of each kind the ladder tells apart
\* after a refresh (success, 401, transient error) and after a login
\* (success, rejection, transient error).
ScriptedRefreshes ==
    {OK, Exc("UnauthorizedError", <<>>), Exc("TimeoutError", <<>>)}

ScriptedLogins ==
    {OK, Exc("AuthError", <<"Incorrect", "password">>), Exc("TimeoutError", <<>>)}

\* The number of login calls in a cycle's call log.
RECURSIVE LoginCount(_)
LoginCount(cs) ==
    IF cs = <<>> THEN 0
    ELSE (IF cs[Len(cs)].op = "login" THEN 1 ELSE 0)
             + LoginCount(SubSeq(cs, 1, Len(cs) - 1))

NoHistory == [logins |-> 0, had_data |-> FALSE]

\* The site-down signature looked for in str(ex).
NullCookie == <<"Null", "cookie">>

\* Variant: the message is compared with the signature instead of searched.
HasNullCookieExact(m) == m = NullCookie

\* "Null cookie" in str(ex): the words Null cookie occur consecutively.
HasNullCookie(m) ==
    \E i \in 1..Len(m) :
        /\ i + Len(NullCookie) - 1 <= Len(m)
        /\ SubSeq(m, i, i + Len(NullCookie) - 1) = NullCookie

\* ----------------------------------------------------------------- state
VARIABLES
    devices,            \* the keys of coordinator.devices
    fields,             \* fields[d]: the data held by device object d
    data,               \* coordinator.data: NULL or DEVICES
    skip_next_refresh,  \* coordinator._skip_next_refresh
    pc,                 \* "idle", "gather" (awaiting a refresh round), "login"
    stage,              \* try block the cycle is in: 0 (l.102), 1 (l.105-106), 2 (l.111-112)
    awaited,            \* devices whose task the running gather still waits for
    inflight,           \* inflight[d]: refresh calls running on device d
    rounds,             \* refresh rounds this cycle has begun
    started,            \* started[d]: refresh calls this cycle has made on d
    calls,              \* this cycle's client calls so far, with their results
    prior,              \* snapshot contents when the cycle started, if any
    outcome,            \* how the last cycle ended ("none" while one runs)
    returned,           \* contents of the snapshot the last cycle returned
    prev,               \* outcome and returned snapshot of the cycle before
    scripted,           \* the site answers every cycle from the same script
    round_script,       \* round_script[k][d]: d's answer to the refresh of round k
    login_script,       \* login_script[j]: the answer to the cycle's j-th login
    history,            \* under a script: logins and prior data of the cycle before
    system_mode,        \* device.system_mode as the climate entity last saw it
    StatusHeat,         \* device.raw_ui_data["StatusHeat"]
    StatusCool,         \* device.raw_ui_data["StatusCool"]
    away_hold,          \* the climate entity's away-hold memory
    state_preset,       \* preset_mode as last written to the entity's state
    mutator_calls,      \* device calls issued by the last command
    call_answers,       \* what each of these calls answered
    cmd_result,         \* how the last preset command ended
    cmds,               \* the preset commands remembered, oldest first
    since,              \* what was polled since the last preset command
    last_cmd,           \* the last command of any kind ("" before the first)
    fresh,              \* no poll was processed since the last command
    has_humidifier,     \* has_humidifier[d]: device.has_humidifier, once read
    has_dehumidifier,   \* has_dehumidifier[d]: device.has_dehumidifier, once read
    hum_loaded,         \* the humidifier platform has been set up
    hum_entities,       \* the HoneywellHumidifier entities added
    hum_cmd,            \* the last humidifier command: entity and service
    hum_calls,          \* the device mutators the last command called
    hum_raised,         \* such a mutator raised
    hum_result,         \* how the last humidifier command ended
    setup_pc,           \* where async_setup_entry is: "entry", "login", "discover",
                        \* "refresh" (first refresh), "forward", "done"
    setup_result,       \* what async_setup_entry returned or raised ("" before)
    setup_error,        \* the exception login or discover raised ("" if none)
    runtime_data,       \* config_entry.runtime_data has been set
    platforms,          \* the platforms forwarded
    attempts,           \* setup attempts begun
    entry_data,         \* config_entry.data
    entry_options,      \* config_entry.options
    migrated            \* the keys some migration has moved to the options

poll_vars == <<devices, fields, data, skip_next_refresh, pc, stage, awaited, inflight,
               rounds, started,
               calls, prior, outcome, returned, prev,
               scripted, round_script, login_script, history>>

climate_vars == <<system_mode, StatusHeat, StatusCool, away_hold, state_preset,
                  mutator_calls, call_answers, cmd_result, cmds, since,
                  last_cmd, fresh>>

humidifier_vars == <<has_humidifier, has_dehumidifier, hum_loaded, hum_entities,
                     hum_cmd, hum_calls, hum_raised, hum_result>>

setup_vars == <<setup_pc, setup_result, setup_error, runtime_data, platforms,
                attempts, entry_data, entry_options, migrated>>

vars == <<devices, fields, data, skip_next_refresh, pc, stage, awaited, inflight,
          rounds, started,
          calls, prior, outcome, returned, prev,
          scripted, round_script, login_script, history,
          system_mode, StatusHeat, StatusCool, away_hold, state_preset,
          mutator_calls, call_answers, cmd_result, cmds, since, last_cmd, fresh,
          has_humidifier, has_dehumidifier, hum_loaded, hum_entities,
          hum_cmd, hum_calls, hum_raised, hum_result,
          setup_pc, setup_result, setup_error, runtime_data, platforms,
          attempts, entry_data, entry_options, migrated>>

Outcomes ==
    {"none", "fresh", "stale", "skipped", "ConfigEntryAuthFailed", "UpdateFailed",
     "UnauthorizedError", "UnexpectedResponse", "AuthError"}

Call(op, r) == [op |-> op, res |-> r]

\* ------------------------------------------------ humidifier entities
HUMIDIFIER_KEY == "humidifier"

DEHUMIDIFIER_KEY == "dehumidifier"

\* The services of a humidifier entity.
HumidifierServices == {"turn_on", "turn_off", "set_humidity"}

\* Variant: the dehumidifier description turns on through the humidifier's
\* mutator.
HUMIDIFIERS_SharedOn(key, service) ==
    IF key = HUMIDIFIER_KEY
    THEN (IF service = "turn_on" THEN "set_humidifier_auto"
          ELSE IF service = "turn_off" THEN "set_humidifier_off"
          ELSE "set_humidifier_setpoint")
    ELSE (IF service = "turn_on" THEN "set_humidifier_auto"
          ELSE IF service = "turn_off" THEN "set_dehumidifier_off"
          ELSE "set_dehumidifier_setpoint")

\* HUMIDIFIERS: the device mutator each description binds to a service.
HUMIDIFIERS(key, service) ==
    IF key = HUMIDIFIER_KEY
    THEN (IF service = "turn_on" THEN "set_humidifier_auto"
          ELSE IF service = "turn_off" THEN "set_humidifier_off"
          ELSE "set_humidifier_setpoint")
    ELSE (IF service = "turn_on" THEN "set_dehumidifier_auto"
          ELSE IF service = "turn_off" THEN "set_dehumidifier_off"
          ELSE "set_dehumidifier_setpoint")

HumidifierMutators ==
    {HUMIDIFIERS(k, s) : k \in {HUMIDIFIER_KEY, DEHUMIDIFIER_KEY}, s \in HumidifierServices}

\* A humidifier entity: a device and the key of its description.
HumidifierEntity(d, key) == [device |-> d, key |-> key]

HumidifierEntities == [device : Devices, key : {HUMIDIFIER_KEY, DEHUMIDIFIER_KEY}]

\* Variant: a timeout of the mutator is not among the errors caught.
HumidifierCaughtNoTimeout == {"SomeComfortError", "ClientConnectionError"}

\* The errors the three service handlers catch.
HumidifierCaught == {"SomeComfortError", "TimeoutError", "ClientConnectionError"}

\* What a humidifier mutator answers.
HumidifierAnswers == {"ok", "SomeComfortError", "TimeoutError", "ClientConnectionError"}

NoCommand == <<>>

\* ------------------------------------------------- the climate entity
\* The climate platform is not part of the sources at hand; it is modelled
\* from the specification (the hold reconciler) and from what
\* tests/test_climate.py asserts of it.  One thermostat's entity is modelled.

\* Hold codes of raw_ui_data["StatusHeat"] / ["StatusCool"].  The tests poll
\* code 3 and expect PRESET_NONE (test_climate.py l.1170-1177, l.1216-1232),
\* so the two hold codes lie below it.
MODE_TEMPORARY_HOLD == 1

MODE_PERMANENT_HOLD == 2

StatusCodes == 0..3

\* The away setpoints the entry is configured with in the tests.
COOL_AWAY_TEMPERATURE == 12

HEAT_AWAY_TEMPERATURE == 22

\* device.system_mode; "Junk" stands for any value the entity does not know.
KnownModes == {"off", "heat", "cool", "auto"}

SystemModes == KnownModes \cup {"Junk"}

\* The preset commands modelled.
PresetCommands == {"away", "hold", "none"}

\* The toggling sequence whose last command must not be suppressed.
TogglePattern == <<"away", "none", "away">>

\* The preset commands are remembered as far as they can still grow into the
\* toggling sequence: after command c, the longest end of the commands given
\* that is a beginning of TogglePattern, and the command alone if there is none.
Remembered(h, c) ==
    LET all  == h \o <<c>>
        ends == {k \in 1..Len(TogglePattern) :
                    /\ k <= Len(all)
                    /\ SubSeq(all, Len(all) - k + 1, Len(all)) = SubSeq(TogglePattern, 1, k)}
    IN  IF ends = {} THEN <<c>>
        ELSE LET k == CHOOSE n \in ends : \A m \in ends : m <= n
             IN  SubSeq(all, Len(all) - k + 1, Len(all))

\* Set temperature with a single target, and with a low/high pair.
TemperatureCommands == {"temperature", "temperature_pair"}

\* What a device mutator call answers.
MutatorResponses == {"ok", "SomeComfortError", "UnexpectedResponse"}

CmdResults == {"ok", "ServiceValidationError", "HomeAssistantError"}

\* device.set_hold_cool / device.set_hold_heat with their arguments: the away
\* hold passes (True, temperature), clearing passes (False).
HoldCall(fn, hold, temp) == [fn |-> fn, hold |-> hold, temp |-> temp]

HoldCalls ==
    [fn : {"set_hold_cool", "set_hold_heat"}, hold : BOOLEAN,
     temp : {<<>>, <<COOL_AWAY_TEMPERATURE>>, <<HEAT_AWAY_TEMPERATURE>>}]

\* Target temperatures a set-temperature command may carry.
Temperatures == {15, 25}

\* The reset time a temporary hold is requested with (datetime.time(2, 30)).
RESET_TIME == "02:30"

\* device.set_hold_cool / set_hold_heat called with (time, temperature).
TemporaryHoldCall(fn, temp) == [fn |-> fn, until |-> RESET_TIME, temp |-> <<temp>>]

\* device.set_setpoint_cool / set_setpoint_heat called with (temperature).
SetpointCall(fn, temp) == [fn |-> fn, temp |-> <<temp>>]

MutatorCalls ==
    HoldCalls
    \cup [fn : {"set_hold_cool", "set_hold_heat"}, until : {RESET_TIME},
          temp : {<<t>> : t \in Temperatures}]
    \cup [fn : {"set_setpoint_cool", "set_setpoint_heat"},
          temp : {<<t>> : t \in Temperatures}]

\* What the first and the second mutator call of a command answer.
CallAnswers == [{1, 2} -> MutatorResponses]

\* The calls of the planned sequence that are sent: they are awaited one
\* after the other and the first one that raises ends the command.
Sent(plan, ans) ==
    LET failing == {i \in DOMAIN plan : ans[i] # "ok"}
    IN  IF failing = {} THEN plan
        ELSE SubSeq(plan, 1, CHOOSE i \in failing : \A j \in failing : i <= j)

\* What the last call sent answered, "ok" when no call was sent.
LastAnswer(plan, ans) ==
    IF Sent(plan, ans) = <<>> THEN "ok" ELSE ans[Len(Sent(plan, ans))]

\* Variant: the hold codes are read as 2 = temporary and 3 = permanent.
CircuitHoldCodes23(code) == code \in {2, 3}

\* A circuit is in hold when its status is a temporary or a permanent hold;
\* the device is in hold when either circuit is.
CircuitHold(code) == code \in {MODE_TEMPORARY_HOLD, MODE_PERMANENT_HOLD}

IsHold(sh, sc) == CircuitHold(sh) \/ CircuitHold(sc)

\* The preset the entity reports: away when the memory is set and a hold is
\* active, hold when a hold is active without the memory, none otherwise.
preset_mode(memory, sh, sc) ==
    IF IsHold(sh, sc) /\ memory THEN "away"
    ELSE IF IsHold(sh, sc) THEN "hold"
    ELSE "none"

\* Variant: mode off is treated like auto, both circuits are addressed.
CircuitsOffAsAuto(m) ==
    (IF m \in {"cool", "auto", "off"} THEN <<"cool">> ELSE <<>>)
        \o (IF m \in {"heat", "auto", "off"} THEN <<"heat">> ELSE <<>>)

\* The circuits a command acts on in mode m, cool before heat.
Circuits(m) ==
    (IF m \in {"cool", "auto"} THEN <<"cool">> ELSE <<>>)
        \o (IF m \in {"heat", "auto"} THEN <<"heat">> ELSE <<>>)

\* Variant: every call of the sequence is issued, whatever the earlier ones
\* answered.
IssuedRegardless(cs, resp) == cs

\* The calls of sequence cs that are issued when circuit c's call answers
\* resp[c]: the calls are awaited one after the other and the first one that
\* raises ends the command.
Issued(cs, resp) ==
    LET failing == {i \in DOMAIN cs : resp[cs[i]] # "ok"}
    IN  IF failing = {} THEN cs
        ELSE SubSeq(cs, 1, CHOOSE i \in failing : \A j \in failing : i <= j)

\* The first failure among the issued calls, "ok" if there is none.
FirstFailure(cs, resp) ==
    LET made == Issued(cs, resp)
    IN  IF made = <<>> THEN "ok" ELSE resp[made[Len(made)]]

\* ------------------------------------------------- setup of the entry
PLATFORMS == {"climate", "humidifier", "sensor", "switch"}

\* The keys of the entry; the two away-temperature keys are distinct strings
\* other than the credentials' keys.
CONF_USERNAME == "username"
CONF_COOL_AWAY_TEMPERATURE == "away_cool_temperature"
CONF_HEAT_AWAY_TEMPERATURE == "away_heat_temperature"

MIGRATE_OPTIONS_KEYS == {CONF_COOL_AWAY_TEMPERATURE, CONF_HEAT_AWAY_TEMPERATURE}

\* The values an away temperature is stored with.
EntryValues == {"60", "85"}

\* dict.get(k): the value under k, None when the dict has no such key.
Get(dict, k) == IF k \in DOMAIN dict THEN dict[k] ELSE NULL

\* The away temperatures an entry may hold, in its data or in its options:
\* none, one or both.
AwayTemperatures == UNION {[ks -> EntryValues] : ks \in SUBSET MIGRATE_OPTIONS_KEYS}

\* config_entry.data: the credentials and the away temperatures `away`.
EntryData(away) ==
    [k \in DOMAIN away \cup {CONF_USERNAME} |->
        IF k = CONF_USERNAME THEN "user" ELSE away[k]]

\* Variant: the migrated keys stay in the entry data.
MigratedDataKeepsKeys(entry) == entry

\* The data argument of async_update_entry: the data without the migrated keys.
MigratedData(entry) ==
    [k \in DOMAIN entry \ MIGRATE_OPTIONS_KEYS |-> entry[k]]

\* The options argument of async_update_entry: the options, overlaid with
\* data.get(k) for each of the two migrated keys.
MigratedOptions(entry, opts) ==
    [k \in DOMAIN opts \cup MIGRATE_OPTIONS_KEYS |->
        IF k \in MIGRATE_OPTIONS_KEYS THEN Get(entry, k) ELSE opts[k]]

\* The classes of aiosomecomfort that derive from SomeComfortError.
SomeComfortErrors ==
    {"SomeComfortError", "ConnectionError", "ConnectionTimeout", "AuthError",
     "APIRateLimited", "UnauthorizedError", "UnexpectedResponse"}

\* What client.login() and client.discover() can raise during setup.
SetupErrors == SomeComfortErrors \cup {"ClientConnectionError", "TimeoutError"}

SetupResponses == {"ok"} \cup SetupErrors

SetupResults ==
    {"", "True", "False", "ConfigEntryAuthFailed", "ConfigEntryNotReady"}
        \cup SetupErrors

\* Variant: the clause for SomeComfortError and the connection errors comes
\* first.
SetupExceptBroadFirst(e) ==
    IF e \in SomeComfortErrors \cup {"ClientConnectionError", "TimeoutError"}
    THEN "ConfigEntryNotReady"
    ELSE IF e = "AuthError" THEN "ConfigEntryAuthFailed"
    ELSE IF e = "APIRateLimited" THEN "ConfigEntryNotReady"
    ELSE e

\* The except clauses around login and discover, in their order: what setup
\* raises for the exception class e.
SetupExcept(e) ==
    IF e = "AuthError" THEN "ConfigEntryAuthFailed"
    ELSE IF e = "APIRateLimited" THEN "ConfigEntryNotReady"
    ELSE IF e \in SomeComfortErrors \cup {"ClientConnectionError", "TimeoutError"}
    THEN "ConfigEntryNotReady"
    ELSE e

TypeOK ==
    /\ devices \subseteq Devices
    /\ fields \in [devices -> Values]
    /\ data \in {NULL, DEVICES}
    /\ skip_next_refresh \in BOOLEAN
    /\ pc \in {"idle", "gather", "login"}
    /\ stage \in 0..2
    /\ awaited \subseteq devices
    /\ inflight \in [devices -> 0..MaxInFlight]
    /\ rounds \in 0..3
    /\ started \in [devices -> 0..3]
    /\ calls \in Seq([op : {"login", "refresh"}, res : LoginResponses \cup RefreshResponses])
    /\ prior \in Snapshots
    /\ outcome \in Outcomes
    /\ returned \in Snapshots
    /\ prev \in [outcome : Outcomes, returned : Snapshots]
    /\ scripted \in BOOLEAN
    /\ round_script \in Seq([devices -> RefreshResponses])
    /\ Len(round_script) <= 3
    /\ login_script \in Seq(LoginResponses)
    /\ Len(login_script) <= 2
    /\ history \in [logins : 0..2, had_data : BOOLEAN]
    /\ system_mode \in SystemModes
    /\ StatusHeat \in StatusCodes
    /\ StatusCool \in StatusCodes
    /\ away_hold \in BOOLEAN
    /\ state_preset \in {"away", "hold", "none"}
    /\ mutator_calls \in Seq(MutatorCalls)
    /\ call_answers \in Seq(MutatorResponses)
    /\ Len(call_answers) = Len(mutator_calls)
    /\ cmd_result \in CmdResults
    /\ cmds \in Seq(PresetCommands)
    /\ Len(cmds) <= Len(TogglePattern)
    /\ since \in {"cmd", "hold", "nohold"}
    /\ last_cmd \in PresetCommands \cup TemperatureCommands \cup {""}
    /\ fresh \in BOOLEAN
    /\ has_humidifier \in [Devices -> BOOLEAN]
    /\ has_dehumidifier \in [Devices -> BOOLEAN]
    /\ hum_loaded \in BOOLEAN
    /\ hum_entities \subseteq HumidifierEntities
    /\ hum_cmd \in {NoCommand} \cup {<<e, s>> : e \in HumidifierEntities, s \in HumidifierServices}
    /\ hum_calls \in Seq([device : Devices, fn : HumidifierMutators])
    /\ setup_pc \in {"entry", "login", "discover", "refresh", "forward", "done"}
    /\ setup_result \in SetupResults
    /\ setup_error \in {""} \cup SetupErrors
    /\ runtime_data \in BOOLEAN
    /\ platforms \in {{}, PLATFORMS}
    /\ attempts \in 0..MaxAttempts
    /\ DOMAIN entry_data \subseteq MIGRATE_OPTIONS_KEYS \cup {CONF_USERNAME}
    /\ \A k \in DOMAIN entry_data : entry_data[k] \in EntryValues \cup {"user"}
    /\ DOMAIN entry_options \subseteq MIGRATE_OPTIONS_KEYS
    /\ \A k \in DOMAIN entry_options : entry_options[k] \in EntryValues \cup {NULL}
    /\ migrated \subseteq MIGRATE_OPTIONS_KEYS
    /\ hum_raised \in BOOLEAN
    /\ hum_result \in {"", "ok", "HomeAssistantError"} \cup HumidifierAnswers

\* State after HoneywellCoordinator.__init__ was given the devices ds, with
\* the skip flag as `skip`: discovery has filled the device objects, no cycle
\* has run.  The climate entity has just been added: the thermostat is off
\* with no hold, no command was given.
InitWith(ds, skip) ==
    /\ devices = ds
    /\ fields \in [ds -> Values]
    /\ data = NULL
    /\ skip_next_refresh = skip
    /\ pc = "idle"
    /\ stage = 0
    /\ awaited = {}
    /\ inflight = [d \in ds |-> 0]
    /\ rounds = 0
    /\ started = [d \in ds |-> 0]
    /\ calls = <<>>
    /\ prior = NoSnapshot
    /\ outcome = "none"
    /\ returned = NoSnapshot
    /\ prev = [outcome |-> "none", returned |-> NoSnapshot]
    /\ round_script = <<>>
    /\ login_script = <<>>
    /\ history = NoHistory
    /\ system_mode = "off"
    /\ StatusHeat = 0
    /\ StatusCool = 0
    /\ away_hold = FALSE
    /\ state_preset = "none"
    /\ mutator_calls = <<>>
    /\ call_answers = <<>>
    /\ cmd_result = "ok"
    /\ cmds = <<>>
    /\ since = "nohold"
    /\ last_cmd = ""
    /\ fresh = FALSE
    /\ has_humidifier = [d \in Devices |-> FALSE]
    /\ has_dehumidifier = [d \in Devices |-> FALSE]
    /\ hum_loaded = FALSE
    /\ hum_entities = {}
    /\ hum_cmd = NoCommand
    /\ hum_calls = <<>>
    /\ hum_raised = FALSE
    /\ hum_result = ""

\* The entry's setup at the moment the coordinator has been constructed: the
\* first attempt migrated nothing, logged in and discovered the devices, and
\* is about to await the first refresh.
SetupConstructed ==
    /\ setup_pc = "refresh"
    /\ setup_result = ""
    /\ setup_error = ""
    /\ runtime_data = FALSE
    /\ platforms = {}
    /\ attempts = 1
    /\ entry_data = EntryData([k \in {} |-> NULL])
    /\ entry_options = [k \in {} |-> NULL]
    /\ migrated = {}

\* State after HoneywellCoordinator.__init__ as written (l.76-93): all the
\* devices discovered, the skip flag False.  The site answers each call as
\* it likes.
Init == InitWith(Devices, FALSE) /\ scripted = FALSE /\ SetupConstructed

\* ------------------------------------------------------ ends of a cycle
\* Variant: the cycle returns only the devices no refresh is awaited for.
ReturnRefreshedOnly(kind) ==
    /\ pc' = "idle"
    /\ outcome' = kind
    /\ data' = DEVICES
    /\ returned' = Snap([d \in devices \ awaited |-> fields'[d]])

\* The cycle returns self.devices; the base coordinator stores the returned
\* object in coordinator.data.
Return(kind) ==
    /\ pc' = "idle"
    /\ outcome' = kind
    /\ data' = DEVICES
    /\ returned' = Snap(fields')

\* Variant: a failing cycle drops the stored snapshot.
RaiseDropsData(kind) ==
    /\ pc' = "idle"
    /\ outcome' = kind
    /\ data' = NULL
    /\ returned' = NoSnapshot

\* The cycle raises; coordinator.data is left as it was.
Raise(kind) ==
    /\ pc' = "idle"
    /\ outcome' = kind
    /\ data' = data
    /\ returned' = NoSnapshot

\* Variant: the cached data is returned without looking at coordinator.data.
handle_transient_error_unchecked == Return("stale")

\* Return stale data on transient errors, or raise if no prior data.
handle_transient_error ==
    IF data # NULL THEN Return("stale") ELSE Raise("UpdateFailed")

\* The cycle goes on to the login of try block s.
GoLogin(s) ==
    /\ pc' = "login"
    /\ stage' = s
    /\ UNCHANGED <<data, outcome, returned>>

\* Variant: the reauthentication error is raised after the second re-login
\* try instead of inside its except clause.
OnSuccessRaisesAfterRetry ==
    /\ stage' = stage
    /\ IF stage = 2 THEN Raise("ConfigEntryAuthFailed") ELSE Return("fresh")

\* The refresh round of try block `stage` succeeded: nothing is left to run
\* in the try blocks, the cycle falls through to `return self.devices`.
OnSuccess ==
    /\ stage' = stage
    /\ Return("fresh")

\* Variant: the outer try re-logins after a transient error as well.
Except0ReloginsOnTransient(e) ==
    IF e.type = "UnauthorizedError" \/ e.type \in TRANSIENT_ERRORS THEN GoLogin(1)
    ELSE /\ stage' = stage
         /\ IF e.type = "UnexpectedResponse" THEN handle_transient_error
            ELSE Raise(e.type)

\* Except clauses of the outer try (its body is the initial refresh).
Except0(e) ==
    IF e.type = "UnauthorizedError" THEN GoLogin(1)
    ELSE /\ stage' = stage
         /\ IF e.type \in TRANSIENT_ERRORS THEN handle_transient_error
            ELSE IF e.type = "UnexpectedResponse" THEN handle_transient_error
            ELSE Raise(e.type)

\* Variant: no second re-login, an AuthError of the first one is final.
Except1NoRetry(e) ==
    /\ stage' = stage
    /\ IF e.type = "AuthError" THEN Raise("ConfigEntryAuthFailed")
       ELSE IF e.type \in TRANSIENT_ERRORS THEN handle_transient_error
       ELSE Raise(e.type)

\* Variant: the first re-login's except clause for AuthError also takes the
\* transient errors.
Except1RetriesTransient(e) ==
    IF e.type = "AuthError" \/ e.type \in TRANSIENT_ERRORS THEN GoLogin(2)
    ELSE /\ stage' = stage
         /\ Raise(e.type)

\* Except clauses of the first re-login try (login, refresh).
Except1(e) ==
    IF e.type = "AuthError" THEN GoLogin(2)
    ELSE /\ stage' = stage
         /\ IF e.type \in TRANSIENT_ERRORS THEN handle_transient_error
            ELSE Raise(e.type)

\* Variant: every AuthError of the second re-login is taken as transient.
Except2NeverFatal(e) ==
    /\ stage' = stage
    /\ IF e.type = "AuthError" \/ e.type \in TRANSIENT_ERRORS
       THEN handle_transient_error
       ELSE Raise(e.type)

\* Variant: one except clause takes AuthError and the transient errors alike,
\* so a transient error without the signature is fatal.
Except2TransientIsFatal(e) ==
    /\ stage' = stage
    /\ IF e.type = "AuthError" \/ e.type \in TRANSIENT_ERRORS
       THEN IF HasNullCookie(e.msg) THEN handle_transient_error
            ELSE Raise("ConfigEntryAuthFailed")
       ELSE Raise(e.type)

\* Variant: an AuthError of the second re-login is retried once more.
Except2RetriesAgain(e) ==
    IF e.type = "AuthError" THEN GoLogin(2)
    ELSE /\ stage' = stage
         /\ IF e.type \in TRANSIENT_ERRORS THEN handle_transient_error
            ELSE Raise(e.type)

\* Except clauses of the second re-login try (login, refresh).
Except2(e) ==
    /\ stage' = stage
    /\ IF e.type = "AuthError"
       THEN IF HasNullCookie(e.msg) THEN handle_transient_error
            ELSE Raise("ConfigEntryAuthFailed")
       ELSE IF e.type \in TRANSIENT_ERRORS THEN handle_transient_error
       ELSE Raise(e.type)

\* The except clauses that see an exception e raised in try block `stage`.
OnException(e) ==
    CASE stage = 0 -> Except0(e)
      [] stage = 1 -> Except1(e)
      [] stage = 2 -> Except2(e)

\* --------------------------------------------------------------- actions
CanStartRound == \A d \in devices : inflight[d] < MaxInFlight

\* Under a script the answers to the refresh calls of round k are those the
\* script holds for round k; they are drawn when a round k is first begun.
Foreseen(k) ==
    IF scripted /\ Len(round_script) < k
    THEN \E f \in [devices -> ScriptedRefreshes] :
             round_script' = Append(round_script, f)
    ELSE round_script' = round_script

\* Variant: no task is started for a device whose refresh is still running.
async_refresh_devices_skips_running(r0, s0) ==
    /\ rounds' = r0 + 1
    /\ Foreseen(r0 + 1)
    /\ IF devices = {}
       THEN /\ started' = s0
            /\ UNCHANGED <<awaited, inflight>>
       ELSE /\ started' = [d \in devices |->
                              s0[d] + (IF inflight[d] = 0 THEN 1 ELSE 0)]
            /\ awaited' = devices
            /\ inflight' = [d \in devices |->
                               IF inflight[d] = 0 THEN 1 ELSE inflight[d]]
            /\ pc' = "gather"

\* _async_refresh_devices up to its await, the cycle having begun r0 rounds
\* and made s0[d] refresh calls on d before: with no device it returns at
\* once; else one eagerly started task per device, then gather is awaited.
async_refresh_devices(r0, s0) ==
    /\ rounds' = r0 + 1
    /\ Foreseen(r0 + 1)
    /\ IF devices = {}
       THEN /\ started' = s0
            /\ UNCHANGED <<awaited, inflight>>
       ELSE /\ started' = [d \in devices |-> s0[d] + 1]
            /\ awaited' = devices
            /\ inflight' = [d \in devices |-> inflight[d] + 1]
            /\ pc' = "gather"

\* Variant: the ladder position reached by the last cycle is kept, the new
\* cycle resumes in the try block where the last one ended.
TickKeepsStage ==
    /\ pc = "idle"
    /\ prior' = IF data = NULL THEN NoSnapshot ELSE Snap(fields)
    /\ calls' = <<>>
    /\ prev' = [outcome |-> outcome, returned |-> returned]
    /\ CanStartRound
    /\ async_refresh_devices(0, [d \in devices |-> 0])
    /\ stage' = stage
    /\ outcome' = "none"
    /\ returned' = NoSnapshot
    /\ UNCHANGED <<fields, data, skip_next_refresh>>
    /\ history' = (IF scripted
                   THEN [logins |-> LoginCount(calls), had_data |-> prior # NoSnapshot]
                   ELSE history)
    /\ UNCHANGED <<devices, scripted, login_script>>
    /\ UNCHANGED climate_vars
    /\ UNCHANGED humidifier_vars
    /\ UNCHANGED setup_vars

\* Variant: the skipped cycle leaves the skip flag set.
TickKeepsFlag ==
    /\ pc = "idle"
    /\ prior' = IF data = NULL THEN NoSnapshot ELSE Snap(fields)
    /\ calls' = <<>>
    /\ prev' = [outcome |-> outcome, returned |-> returned]
    /\ IF skip_next_refresh
       THEN /\ skip_next_refresh' = skip_next_refresh
            /\ rounds' = 0
            /\ started' = [d \in devices |-> 0]
            /\ UNCHANGED <<fields, stage, awaited, inflight, round_script>>
            /\ Return("skipped")
       ELSE /\ CanStartRound
            /\ stage' = 0
            /\ UNCHANGED <<fields, skip_next_refresh>>
            /\ async_refresh_devices(0, [d \in devices |-> 0])
            /\ IF devices = {}
               THEN Return("fresh")
               ELSE /\ outcome' = "none"
                    /\ returned' = NoSnapshot
                    /\ data' = data
    /\ history' = (IF scripted
                   THEN [logins |-> LoginCount(calls), had_data |-> prior # NoSnapshot]
                   ELSE history)
    /\ UNCHANGED <<devices, scripted, login_script>>
    /\ UNCHANGED climate_vars
    /\ UNCHANGED humidifier_vars
    /\ UNCHANGED setup_vars

\* A timer tick: _async_update_data starts.
Tick ==
    /\ pc = "idle"
    /\ prior' = IF data = NULL THEN NoSnapshot ELSE Snap(fields)
    /\ calls' = <<>>
    /\ prev' = [outcome |-> outcome, returned |-> returned]
    /\ IF skip_next_refresh
       THEN /\ skip_next_refresh' = FALSE
            /\ rounds' = 0
            /\ started' = [d \in devices |-> 0]
            /\ UNCHANGED <<fields, stage, awaited, inflight, round_script>>
            /\ Return("skipped")
       ELSE /\ CanStartRound
            /\ stage' = 0
            /\ UNCHANGED <<fields, skip_next_refresh>>
            /\ async_refresh_devices(0, [d \in devices |-> 0])
            /\ IF devices = {}
               THEN Return("fresh")
               ELSE /\ outcome' = "none"
                    /\ returned' = NoSnapshot
                    /\ data' = data
    /\ history' = (IF scripted
                   THEN [logins |-> LoginCount(calls), had_data |-> prior # NoSnapshot]
                   ELSE history)
    /\ UNCHANGED <<devices, scripted, login_script>>
    /\ UNCHANGED climate_vars
    /\ UNCHANGED humidifier_vars
    /\ UNCHANGED setup_vars

\* The refresh of device d awaited by the running gather completes with r.
TaskDone(d, r) ==
    /\ pc = "gather"
    /\ d \in awaited
    /\ scripted => r = round_script[rounds][d]
    /\ inflight' = [inflight EXCEPT ![d] = @ - 1]
    /\ UNCHANGED <<skip_next_refresh, prior, prev, rounds, started>>
    /\ IF r = OK
       THEN /\ \E v \in Values : fields' = [fields EXCEPT ![d] = v]
            /\ awaited' = awaited \ {d}
            /\ IF awaited' = {}
               THEN /\ calls' = Append(calls, Call("refresh", OK))
                    /\ OnSuccess
               ELSE UNCHANGED <<calls, stage, pc, outcome, data, returned>>
       ELSE /\ fields' = fields
            /\ awaited' = {}
            /\ calls' = Append(calls, Call("refresh", r))
            /\ OnException(r)
    /\ UNCHANGED <<devices, scripted, round_script, login_script, history>>
    /\ UNCHANGED climate_vars
    /\ UNCHANGED humidifier_vars
    /\ UNCHANGED setup_vars

\* A refresh of device d that no gather waits for any more completes with r.
OrphanDone(d, r) ==
    /\ d \in devices
    /\ inflight[d] > (IF d \in awaited THEN 1 ELSE 0)
    /\ inflight' = [inflight EXCEPT ![d] = @ - 1]
    /\ IF r = OK
       THEN \E v \in Values : fields' = [fields EXCEPT ![d] = v]
       ELSE fields' = fields
    /\ UNCHANGED <<data, skip_next_refresh, pc, stage, awaited, calls, prior,
                   outcome, returned, prev, rounds, started>>
    /\ UNCHANGED <<devices, scripted, round_script, login_script, history>>
    /\ UNCHANGED climate_vars
    /\ UNCHANGED humidifier_vars
    /\ UNCHANGED setup_vars

\* client.login() of try block `stage` completes with r.
Login(r) ==
    /\ pc = "login"
    /\ IF scripted /\ Len(login_script) >= stage
       THEN r = login_script[stage] /\ login_script' = login_script
       ELSE login_script' = (IF scripted THEN Append(login_script, r)
                             ELSE login_script)
    /\ calls' = Append(calls, Call("login", r))
    /\ UNCHANGED <<fields, skip_next_refresh, prior, prev>>
    /\ IF r = OK
       THEN /\ CanStartRound
            /\ async_refresh_devices(rounds, started)
            /\ IF devices = {}
               THEN OnSuccess
               ELSE UNCHANGED <<stage, data, outcome, returned>>
       ELSE /\ UNCHANGED <<awaited, inflight, rounds, started, round_script>>
            /\ OnException(r)
    /\ UNCHANGED <<devices, scripted, history>>
    /\ UNCHANGED climate_vars
    /\ UNCHANGED humidifier_vars
    /\ UNCHANGED setup_vars

Next ==
    \/ Tick
    \/ \E d \in Devices, r \in RefreshResponses : TaskDone(d, r)
    \/ \E d \in Devices, r \in RefreshResponses : OrphanDone(d, r)
    \/ \E r \in LoginResponses : Login(r)

Spec == Init /\ [][Next]_vars

\* Every client call that was started eventually returns or raises: the
\* awaited refreshes, the refreshes no gather waits for, and the logins.
Fairness ==
    /\ WF_vars(\E d \in Devices, r \in RefreshResponses : TaskDone(d, r))
    /\ WF_vars(\E d \in Devices, r \in RefreshResponses : OrphanDone(d, r))
    /\ WF_vars(\E r \in LoginResponses : Login(r))

FairSpec == Spec /\ Fairness

\* The coordinator constructed with any dict of devices, the empty one
\* included.
AnyDevicesInit ==
    /\ \E ds \in SUBSET Devices : InitWith(ds, FALSE)
    /\ scripted = FALSE
    /\ SetupConstructed

AnyDevicesSpec == AnyDevicesInit /\ [][Next]_vars

\* The coordinator constructed with the skip flag set, as after a discovery
\* that has already filled the devices.
FlaggedInit == InitWith(Devices, TRUE) /\ scripted = FALSE /\ SetupConstructed

FlaggedSpec == FlaggedInit /\ [][Next]_vars

\* The first two cycles of a coordinator constructed with any dict of
\* devices and the skip flag set or not.
AnyCoordinatorInit ==
    /\ \E ds \in SUBSET Devices, skip \in BOOLEAN : InitWith(ds, skip)
    /\ scripted = FALSE
    /\ SetupConstructed

AnyCoordinatorNext ==
    \/ (prev.outcome = "none" /\ Tick)
    \/ \E d \in Devices, r \in RefreshResponses : TaskDone(d, r)
    \/ \E d \in Devices, r \in RefreshResponses : OrphanDone(d, r)
    \/ \E r \in LoginResponses : Login(r)

AnyCoordinatorSpec == AnyCoordinatorInit /\ [][AnyCoordinatorNext]_vars

\* The first two cycles against a site that answers every cycle from the
\* same script: round k of either cycle gets the same answer from each
\* device, the j-th login of either cycle the same answer; the order in
\* which the refreshes of a round complete is free.
ScriptedInit == InitWith(Devices, FALSE) /\ scripted = TRUE /\ SetupConstructed

ScriptedNext ==
    \/ (prev.outcome = "none" /\ Tick)
    \/ \E d \in Devices, r \in RefreshResponses : TaskDone(d, r)
    \/ \E d \in Devices, r \in ScriptedRefreshes : OrphanDone(d, r)
    \/ \E r \in ScriptedLogins : Login(r)

ScriptedSpec == ScriptedInit /\ [][ScriptedNext]_vars

\* -------------------------------------------- climate entity: operations
\* The mutator a preset command sends to circuit c.
AwayCall(c) ==
    IF c = "cool" THEN HoldCall("set_hold_cool", TRUE, <<COOL_AWAY_TEMPERATURE>>)
    ELSE HoldCall("set_hold_heat", TRUE, <<HEAT_AWAY_TEMPERATURE>>)

ClearCall(c) ==
    IF c = "cool" THEN HoldCall("set_hold_cool", FALSE, <<>>)
    ELSE HoldCall("set_hold_heat", FALSE, <<>>)

\* Every preset command is appended to the remembered commands, and no poll
\* has been processed since it.
Commanded(c) ==
    /\ cmds' = Remembered(cmds, c)
    /\ since' = "cmd"
    /\ last_cmd' = c
    /\ fresh' = TRUE
    /\ UNCHANGED <<system_mode, StatusHeat, StatusCool>>
    /\ UNCHANGED poll_vars
    /\ UNCHANGED humidifier_vars
    /\ UNCHANGED setup_vars

\* Variant: the away hold is put on both circuits whatever the mode is.
set_preset_away_both_circuits(resp) ==
    LET cs   == <<"cool", "heat">>
        made == Issued(cs, resp)
        fail == FirstFailure(cs, resp)
    IN  /\ Commanded("away")
        /\ IF system_mode \notin KnownModes
           THEN /\ mutator_calls' = <<>>
                /\ call_answers' = <<>>
                /\ cmd_result' = "HomeAssistantError"
                /\ UNCHANGED <<away_hold, state_preset>>
           ELSE /\ mutator_calls' = [i \in DOMAIN made |-> AwayCall(made[i])]
                /\ call_answers' = [i \in DOMAIN made |-> resp[made[i]]]
                /\ IF fail = "ok"
                   THEN /\ cmd_result' = "ok"
                        /\ away_hold' = TRUE
                        /\ state_preset' = preset_mode(TRUE, StatusHeat, StatusCool)
                   ELSE /\ cmd_result' = (IF fail = "SomeComfortError"
                                          THEN "ServiceValidationError"
                                          ELSE "HomeAssistantError")
                        /\ UNCHANGED <<away_hold, state_preset>>

\* Set preset = AWAY.  An unknown mode fails at once.  Otherwise a permanent
\* hold with the configured away setpoint is requested on the circuits of the
\* current mode (test_climate.py l.481-491, l.768-780, l.985-999), the memory is
\* recorded and the state is written; a failing call ends the command with
\* one error (SomeComfortError: l.493-507, UnexpectedResponse: l.782-796).
set_preset_away(resp) ==
    LET cs   == Circuits(system_mode)
        made == Issued(cs, resp)
        fail == FirstFailure(cs, resp)
    IN  /\ Commanded("away")
        /\ IF system_mode \notin KnownModes
           THEN /\ mutator_calls' = <<>>
                /\ call_answers' = <<>>
                /\ cmd_result' = "HomeAssistantError"
                /\ UNCHANGED <<away_hold, state_preset>>
           ELSE /\ mutator_calls' = [i \in DOMAIN made |-> AwayCall(made[i])]
                /\ call_answers' = [i \in DOMAIN made |-> resp[made[i]]]
                /\ IF fail = "ok"
                   THEN /\ cmd_result' = "ok"
                        /\ away_hold' = TRUE
                        /\ state_preset' = preset_mode(TRUE, StatusHeat, StatusCool)
                   ELSE /\ cmd_result' = (IF fail = "SomeComfortError"
                                          THEN "ServiceValidationError"
                                          ELSE "HomeAssistantError")
                        /\ UNCHANGED <<away_hold, state_preset>>

\* The bare permanent hold Set preset = HOLD requests on circuit c.
HoldOnCall(c) ==
    IF c = "cool" THEN HoldCall("set_hold_cool", TRUE, <<>>)
    ELSE HoldCall("set_hold_heat", TRUE, <<>>)

\* Variant: the mode is not checked before the circuits are addressed.
set_preset_hold_unchecked(resp) ==
    LET cs   == Circuits(system_mode)
        made == Issued(cs, resp)
        fail == FirstFailure(cs, resp)
    IN  /\ Commanded("hold")
        /\ mutator_calls' = [i \in DOMAIN made |-> HoldOnCall(made[i])]
        /\ call_answers' = [i \in DOMAIN made |-> resp[made[i]]]
        /\ IF fail = "ok"
           THEN /\ cmd_result' = "ok"
                /\ away_hold' = FALSE
                /\ state_preset' = preset_mode(FALSE, StatusHeat, StatusCool)
           ELSE /\ cmd_result' = "HomeAssistantError"
                /\ away_hold' = FALSE
                /\ UNCHANGED state_preset

\* Set preset = HOLD.  An unknown mode fails at once ("Invalid system mode
\* returned", test_climate.py l.620-637).  Otherwise a bare permanent hold is
\* requested on the circuits of the current mode, cool first, also on a
\* circuit whose status already is 2 (l.509-525, l.954-965); a failing call
\* ends the command ("Couldn't set permanent hold", l.967-983).  Away is no
\* longer the last hold request, so the memory is cleared.
set_preset_hold(resp) ==
    LET cs   == Circuits(system_mode)
        made == Issued(cs, resp)
        fail == FirstFailure(cs, resp)
    IN  /\ Commanded("hold")
        /\ IF system_mode \notin KnownModes
           THEN /\ mutator_calls' = <<>>
                /\ call_answers' = <<>>
                /\ cmd_result' = "HomeAssistantError"
                /\ UNCHANGED <<away_hold, state_preset>>
           ELSE /\ mutator_calls' = [i \in DOMAIN made |-> HoldOnCall(made[i])]
                /\ call_answers' = [i \in DOMAIN made |-> resp[made[i]]]
                /\ IF fail = "ok"
                   THEN /\ cmd_result' = "ok"
                        /\ away_hold' = FALSE
                        /\ state_preset' = preset_mode(FALSE, StatusHeat, StatusCool)
                   ELSE /\ cmd_result' = "HomeAssistantError"
                        /\ away_hold' = FALSE
                        /\ UNCHANGED state_preset

\* Variant: clearing the hold leaves the away-hold memory as it was.
set_preset_none_keeps_memory(resp) ==
    LET cs   == <<"cool", "heat">>
        made == Issued(cs, resp)
        fail == FirstFailure(cs, resp)
    IN  /\ Commanded("none")
        /\ away_hold' = away_hold
        /\ IF system_mode \notin KnownModes
           THEN /\ mutator_calls' = <<>>
                /\ call_answers' = <<>>
                /\ cmd_result' = "HomeAssistantError"
                /\ UNCHANGED state_preset
           ELSE /\ mutator_calls' = [i \in DOMAIN made |-> ClearCall(made[i])]
                /\ call_answers' = [i \in DOMAIN made |-> resp[made[i]]]
                /\ IF fail = "ok"
                   THEN /\ cmd_result' = "ok"
                        /\ state_preset' = preset_mode(away_hold, StatusHeat, StatusCool)
                   ELSE /\ cmd_result' = "HomeAssistantError"
                        /\ UNCHANGED state_preset

\* Set preset = NONE.  The away-hold memory is cleared unconditionally.  An
\* unknown mode fails at once; otherwise hold=false is requested, cool circuit
\* first, and a failing call ends the command ("Can not stop hold mode").  The
\* tests expect both circuits to be cleared in every known mode
\* (test_climate.py l.402-420, l.798-812, l.1001-1026).
set_preset_none(resp) ==
    LET cs   == <<"cool", "heat">>
        made == Issued(cs, resp)
        fail == FirstFailure(cs, resp)
    IN  /\ Commanded("none")
        /\ away_hold' = FALSE
        /\ IF system_mode \notin KnownModes
           THEN /\ mutator_calls' = <<>>
                /\ call_answers' = <<>>
                /\ cmd_result' = "HomeAssistantError"
                /\ UNCHANGED state_preset
           ELSE /\ mutator_calls' = [i \in DOMAIN made |-> ClearCall(made[i])]
                /\ call_answers' = [i \in DOMAIN made |-> resp[made[i]]]
                /\ IF fail = "ok"
                   THEN /\ cmd_result' = "ok"
                        /\ state_preset' = preset_mode(FALSE, StatusHeat, StatusCool)
                   ELSE /\ cmd_result' = "HomeAssistantError"
                        /\ UNCHANGED state_preset

\* A set-temperature command: the preset commands remembered and what was
\* polled since the last of them stay as they were.
TemperatureCommanded(c) ==
    /\ last_cmd' = c
    /\ fresh' = TRUE
    /\ UNCHANGED <<cmds, since, away_hold>>
    /\ UNCHANGED <<system_mode, StatusHeat, StatusCool>>
    /\ UNCHANGED poll_vars
    /\ UNCHANGED humidifier_vars
    /\ UNCHANGED setup_vars

\* How a set-temperature command ends: SomeComfortError is reported as
\* "Invalid temperature" (ServiceValidationError), a malformed response as
\* HomeAssistantError; an accepted command writes the entity's state.
TemperatureResult(answer) ==
    /\ cmd_result' = (IF answer = "ok" THEN "ok"
                      ELSE IF answer = "SomeComfortError" THEN "ServiceValidationError"
                      ELSE "HomeAssistantError")
    /\ state_preset' = (IF answer = "ok"
                        THEN preset_mode(away_hold, StatusHeat, StatusCool)
                        ELSE state_preset)

\* Variant: in auto the hold is requested on the heat circuit only.
TemperaturePlanAutoHeatOnly(t) ==
    IF system_mode \notin KnownModes THEN <<>>
    ELSE (IF IsHold(StatusHeat, StatusCool) THEN <<>>
          ELSE (IF system_mode = "cool"
                THEN <<TemporaryHoldCall("set_hold_cool", t)>> ELSE <<>>)
               \o (IF system_mode \in {"heat", "auto"}
                   THEN <<TemporaryHoldCall("set_hold_heat", t)>> ELSE <<>>))
         \o (IF system_mode = "cool" THEN <<SetpointCall("set_setpoint_cool", t)>>
             ELSE IF system_mode = "heat" THEN <<SetpointCall("set_setpoint_heat", t)>>
             ELSE <<>>)

\* The calls Set temperature (single target t) plans.  With no hold active a
\* temporary hold until RESET_TIME carrying t is requested on the circuits of
\* the mode (test_climate.py l.438-446, l.656-664; in auto l.914-927 shows the
\* hold calls being made); in heat and in cool the circuit's setpoint is then
\* set to t (l.718-728).  In off no call is made (l.295-306), and none in an
\* unknown mode.
TemperaturePlan(t) ==
    IF system_mode \notin KnownModes THEN <<>>
    ELSE (IF IsHold(StatusHeat, StatusCool) THEN <<>>
          ELSE (IF system_mode \in {"cool", "auto"}
                THEN <<TemporaryHoldCall("set_hold_cool", t)>> ELSE <<>>)
               \o (IF system_mode \in {"heat", "auto"}
                   THEN <<TemporaryHoldCall("set_hold_heat", t)>> ELSE <<>>))
         \o (IF system_mode = "cool" THEN <<SetpointCall("set_setpoint_cool", t)>>
             ELSE IF system_mode = "heat" THEN <<SetpointCall("set_setpoint_heat", t)>>
             ELSE <<>>)

\* Set temperature with a single target.
set_temperature(t, ans) ==
    /\ TemperatureCommanded("temperature")
    /\ mutator_calls' = Sent(TemperaturePlan(t), ans)
    /\ call_answers' = [i \in DOMAIN Sent(TemperaturePlan(t), ans) |-> ans[i]]
    /\ TemperatureResult(LastAnswer(TemperaturePlan(t), ans))

\* Variant: the pair is sent as two temporary holds carrying the setpoints.
TemperaturePairPlanAsHolds(low, high) ==
    IF system_mode \notin KnownModes THEN <<>>
    ELSE <<TemporaryHoldCall("set_hold_cool", high),
           TemporaryHoldCall("set_hold_heat", low)>>

\* The calls Set temperature (low/high pair) plans: in every known mode, off
\* included, the cool setpoint is set to high and then the heat setpoint to
\* low (test_climate.py l.273-293, l.448-461, l.693-706, l.899-912); none in an
\* unknown mode.
TemperaturePairPlan(low, high) ==
    IF system_mode \notin KnownModes THEN <<>>
    ELSE <<SetpointCall("set_setpoint_cool", high),
           SetpointCall("set_setpoint_heat", low)>>

\* Set temperature with a low/high pair.
set_temperature_pair(low, high, ans) ==
    /\ TemperatureCommanded("temperature_pair")
    /\ mutator_calls' = Sent(TemperaturePairPlan(low, high), ans)
    /\ call_answers' = [i \in DOMAIN Sent(TemperaturePairPlan(low, high), ans) |-> ans[i]]
    /\ TemperatureResult(LastAnswer(TemperaturePairPlan(low, high), ans))

\* Variant: a poll leaves the away-hold memory as it was.
PollKeepsMemory(m, sh, sc) ==
    /\ system_mode' = m
    /\ StatusHeat' = sh
    /\ StatusCool' = sc
    /\ away_hold' = away_hold
    /\ state_preset' = preset_mode(away_hold', sh, sc)
    /\ since' = (IF ~IsHold(sh, sc) THEN "nohold"
                 ELSE IF since = "cmd" THEN "hold" ELSE since)
    /\ fresh' = FALSE
    /\ UNCHANGED <<mutator_calls, call_answers, cmd_result, cmds, last_cmd>>
    /\ UNCHANGED poll_vars
    /\ UNCHANGED humidifier_vars
    /\ UNCHANGED setup_vars

\* A poll cycle's snapshot reaches the entity: mode and hold codes are what
\* the device reports now, the away-hold memory is reset when the device
\* reports no hold, and the state is written.
Poll(m, sh, sc) ==
    /\ system_mode' = m
    /\ StatusHeat' = sh
    /\ StatusCool' = sc
    /\ away_hold' = (IF IsHold(sh, sc) THEN away_hold ELSE FALSE)
    /\ state_preset' = preset_mode(away_hold', sh, sc)
    /\ since' = (IF ~IsHold(sh, sc) THEN "nohold"
                 ELSE IF since = "cmd" THEN "hold" ELSE since)
    /\ fresh' = FALSE
    /\ UNCHANGED <<mutator_calls, call_answers, cmd_result, cmds, last_cmd>>
    /\ UNCHANGED poll_vars
    /\ UNCHANGED humidifier_vars
    /\ UNCHANGED setup_vars

CircuitResponses == [{"cool", "heat"} -> MutatorResponses]

ClimateNext ==
    \/ \E resp \in CircuitResponses : set_preset_away(resp)
    \/ \E resp \in CircuitResponses : set_preset_hold(resp)
    \/ \E resp \in CircuitResponses : set_preset_none(resp)
    \/ \E t \in Temperatures, ans \in CallAnswers : set_temperature(t, ans)
    \/ \E low \in Temperatures, high \in Temperatures, ans \in CallAnswers :
            low < high /\ set_temperature_pair(low, high, ans)
    \/ \E m \in SystemModes, sh \in StatusCodes, sc \in StatusCodes : Poll(m, sh, sc)

\* The entity's behaviours start from one discovery result; what the poll
\* cycle holds plays no part in them.
ClimateInit == Init /\ fields = [d \in Devices |-> 0]

ClimateSpec == ClimateInit /\ [][ClimateNext]_vars

\* ------------------------------------------------- vocabulary of the claims
\* The messages that carry the site-down signature, and those that do not.
SiteDownMessages ==
    { <<"Null", "cookie", "connection", "error", "200">>,
      <<"Error:", "Null", "cookie">> }

GenuineMessages == Messages \ SiteDownMessages

RefreshFailed(c, t) == c.op = "refresh" /\ c.res.type = t

RefreshTransient(c) == c.op = "refresh" /\ c.res.type \in TRANSIENT_ERRORS

RefreshOk(c) == c.op = "refresh" /\ c.res = OK

LoginOk(c) == c.op = "login" /\ c.res = OK

LoginAuthError(c) == c.op = "login" /\ c.res.type = "AuthError"

LoginGenuine(c) == LoginAuthError(c) /\ c.res.msg \in GenuineMessages

LoginSiteDown(c) == LoginAuthError(c) /\ c.res.msg \in SiteDownMessages

LoginTransient(c) == c.op = "login" /\ c.res.type \in TRANSIENT_ERRORS

\* The cycle has ended (and one has run).
CycleOver == pc = "idle" /\ outcome # "none"

\* ------------------------------------------------- async_setup_entry
\* HoneywellCoordinator(hass, config_entry, client, devices): a new
\* coordinator over the discovered devices ds, no cycle run.
Construct(ds) ==
    /\ devices' = ds
    /\ fields' \in [ds -> Values]
    /\ data' = NULL
    /\ skip_next_refresh' = FALSE
    /\ pc' = "idle"
    /\ stage' = 0
    /\ awaited' = {}
    /\ inflight' = [d \in ds |-> 0]
    /\ rounds' = 0
    /\ started' = [d \in ds |-> 0]
    /\ calls' = <<>>
    /\ prior' = NoSnapshot
    /\ outcome' = "none"
    /\ returned' = NoSnapshot
    /\ prev' = [outcome |-> "none", returned |-> NoSnapshot]
    /\ UNCHANGED <<scripted, round_script, login_script, history>>

\* Setup ends by raising what the except clauses make of the exception e.
SetupRaise(e) ==
    /\ setup_error' = e
    /\ setup_result' = SetupExcept(e)
    /\ setup_pc' = "done"

\* async_setup_entry is entered: _async_migrate_data_to_options runs, then
\* the client is built from the entry's credentials.  `migrated` remembers
\* the keys the latest migration found in the data.
setup_start ==
    /\ setup_pc = "entry"
    /\ attempts < MaxAttempts
    /\ attempts' = attempts + 1
    /\ IF MIGRATE_OPTIONS_KEYS \cap DOMAIN entry_data = {}
       THEN UNCHANGED <<entry_data, entry_options, migrated>>
       ELSE /\ entry_data' = MigratedData(entry_data)
            /\ entry_options' = MigratedOptions(entry_data, entry_options)
            /\ migrated' = MIGRATE_OPTIONS_KEYS \cap DOMAIN entry_data
    /\ setup_pc' = "login"
    /\ UNCHANGED <<setup_result, setup_error, runtime_data, platforms>>
    /\ UNCHANGED poll_vars
    /\ UNCHANGED climate_vars
    /\ UNCHANGED humidifier_vars

\* await client.login() returns or raises r.
setup_login(r) ==
    /\ setup_pc = "login"
    /\ IF r = "ok"
       THEN /\ setup_pc' = "discover"
            /\ UNCHANGED <<setup_result, setup_error>>
       ELSE SetupRaise(r)
    /\ UNCHANGED <<runtime_data, platforms, attempts, entry_data, entry_options, migrated>>
    /\ UNCHANGED poll_vars
    /\ UNCHANGED climate_vars
    /\ UNCHANGED humidifier_vars

\* await client.discover() returns with the devices `found` or raises r.
\* With no device setup returns False; otherwise the coordinator is built
\* over the devices and its first refresh is awaited.
setup_discover(r, found) ==
    /\ setup_pc = "discover"
    /\ IF r # "ok"
       THEN /\ SetupRaise(r)
            /\ UNCHANGED poll_vars
       ELSE IF found = {}
       THEN /\ setup_result' = "False"
            /\ setup_pc' = "done"
            /\ UNCHANGED setup_error
            /\ UNCHANGED poll_vars
       ELSE /\ Construct(found)
            /\ setup_pc' = "refresh"
            /\ UNCHANGED <<setup_result, setup_error>>
    /\ UNCHANGED <<runtime_data, platforms, attempts, entry_data, entry_options, migrated>>
    /\ UNCHANGED climate_vars
    /\ UNCHANGED humidifier_vars

\* Variant: the runtime data is published whatever the first refresh did.
first_refresh_done_publishes_always ==
    /\ setup_pc = "refresh"
    /\ pc = "idle"
    /\ outcome # "none"
    /\ runtime_data' = TRUE
    /\ setup_pc' = "forward"
    /\ UNCHANGED <<setup_result, setup_error>>
    /\ UNCHANGED <<platforms, attempts, entry_data, entry_options, migrated>>
    /\ UNCHANGED poll_vars
    /\ UNCHANGED climate_vars
    /\ UNCHANGED humidifier_vars

\* await coordinator.async_config_entry_first_refresh() is over: the first
\* cycle returned, and the runtime data is published, or it raised, and the
\* first refresh raises ConfigEntryAuthFailed for an authentication failure
\* and ConfigEntryNotReady for anything else.
first_refresh_done ==
    /\ setup_pc = "refresh"
    /\ pc = "idle"
    /\ outcome # "none"
    /\ IF outcome \in {"fresh", "stale", "skipped"}
       THEN /\ runtime_data' = TRUE
            /\ setup_pc' = "forward"
            /\ UNCHANGED <<setup_result, setup_error>>
       ELSE /\ setup_result' =
                IF outcome = "ConfigEntryAuthFailed"
                THEN "ConfigEntryAuthFailed" ELSE "ConfigEntryNotReady"
            /\ setup_pc' = "done"
            /\ UNCHANGED <<setup_error, runtime_data>>
    /\ UNCHANGED <<platforms, attempts, entry_data, entry_options, migrated>>
    /\ UNCHANGED poll_vars
    /\ UNCHANGED climate_vars
    /\ UNCHANGED humidifier_vars

\* await async_forward_entry_setups(config_entry, PLATFORMS); return True.
setup_forwarded ==
    /\ setup_pc = "forward"
    /\ platforms' = PLATFORMS
    /\ setup_result' = "True"
    /\ setup_pc' = "done"
    /\ UNCHANGED <<setup_error, runtime_data, attempts, entry_data, entry_options, migrated>>
    /\ UNCHANGED poll_vars
    /\ UNCHANGED climate_vars
    /\ UNCHANGED humidifier_vars

\* ConfigEntryNotReady makes Home Assistant call async_setup_entry again
\* later.
setup_retry ==
    /\ setup_pc = "done"
    /\ setup_result = "ConfigEntryNotReady"
    /\ attempts < MaxAttempts
    /\ setup_pc' = "entry"
    /\ setup_result' = ""
    /\ setup_error' = ""
    /\ UNCHANGED <<runtime_data, platforms, attempts, entry_data, entry_options, migrated>>
    /\ UNCHANGED poll_vars
    /\ UNCHANGED climate_vars
    /\ UNCHANGED humidifier_vars

\* An entry written by a version that kept the away temperatures in the
\* data is set up: no client and no coordinator exist yet.
SetupInit ==
    /\ InitWith({}, FALSE)
    /\ scripted = FALSE
    /\ setup_pc = "entry"
    /\ setup_result = ""
    /\ setup_error = ""
    /\ runtime_data = FALSE
    /\ platforms = {}
    /\ attempts = 0
    /\ entry_data = EntryData([k \in {CONF_COOL_AWAY_TEMPERATURE} |-> "85"])
    /\ entry_options = [k \in {} |-> NULL]
    /\ migrated = {}

\* Setup with its retries; the coordinator runs only the first cycle, the
\* one setup awaits.
SetupNext ==
    \/ setup_start
    \/ \E r \in SetupResponses : setup_login(r)
    \/ \E r \in SetupResponses, found \in SUBSET Devices : setup_discover(r, found)
    \/ (setup_pc = "refresh" /\ outcome = "none" /\ Tick)
    \/ \E d \in Devices, r \in RefreshResponses : TaskDone(d, r)
    \/ \E d \in Devices, r \in RefreshResponses : OrphanDone(d, r)
    \/ \E r \in LoginResponses : Login(r)
    \/ first_refresh_done
    \/ setup_forwarded
    \/ setup_retry

SetupSpec == SetupInit /\ [][SetupNext]_vars

\* Entries with every mix of away temperatures in the data and in the
\* options are set up; login fails, so that setup is run again on the
\* migrated entry.
MigrationInit ==
    /\ InitWith({}, FALSE)
    /\ scripted = FALSE
    /\ setup_pc = "entry"
    /\ setup_result = ""
    /\ setup_error = ""
    /\ runtime_data = FALSE
    /\ platforms = {}
    /\ attempts = 0
    /\ \E away \in AwayTemperatures : entry_data = EntryData(away)
    /\ entry_options \in AwayTemperatures
    /\ migrated = {}

MigrationNext ==
    \/ setup_start
    \/ \E r \in SetupErrors : setup_login(r)
    \/ setup_retry

MigrationSpec == MigrationInit /\ [][MigrationNext]_vars

\* No client call of the cycle is pending or to come.
NoCallPending == pc = "idle" /\ awaited = {}

HadPrior == prior # NoSnapshot

\* --------------------------------------------------------------- claims
UnauthorizedThenTwoLogins ==
    /\ Len(calls) >= 3
    /\ RefreshFailed(calls[1], "UnauthorizedError")
    /\ calls[2].op = "login"
    /\ calls[3].op = "login"

\* C1: a cycle whose initial refresh fails with UnauthorizedError and whose
\* two re-logins both fail with a genuine AuthError raises
\* ConfigEntryAuthFailed, with or without a prior snapshot, and makes no
\* login or refresh call after the second login failed.
C1_PersistentAuthErrorIsFatal ==
    (UnauthorizedThenTwoLogins /\ LoginGenuine(calls[2]) /\ LoginGenuine(calls[3]))
        => /\ NoCallPending
           /\ outcome = "ConfigEntryAuthFailed"
           /\ returned = NoSnapshot
           /\ Len(calls) = 3

C1_Witness ==
    /\ UnauthorizedThenTwoLogins /\ LoginGenuine(calls[2]) /\ LoginGenuine(calls[3])
    /\ HadPrior
    /\ outcome = "ConfigEntryAuthFailed"

\* C2: with a prior snapshot, a cycle whose refresh fails with a transient
\* error returns a snapshot in which every field of every device has the
\* value it had when the cycle started, and raises nothing.
C2_TransientReturnsPriorFields ==
    (Len(calls) >= 1 /\ RefreshTransient(calls[1]) /\ HadPrior)
        => /\ CycleOver
           /\ outcome = "stale"
           /\ returned = prior

\* C3: initial refresh UnauthorizedError, re-login ok, retried refresh fails
\* with a transient error, prior snapshot present: the cycle returns the
\* cached snapshot, raises no ConfigEntryAuthFailed and has called login
\* exactly once.
C3_TransientAfterReloginIsStale ==
    ( /\ Len(calls) >= 3
      /\ RefreshFailed(calls[1], "UnauthorizedError")
      /\ LoginOk(calls[2])
      /\ RefreshTransient(calls[3])
      /\ HadPrior )
        => /\ NoCallPending
           /\ outcome = "stale"
           /\ data = DEVICES
           /\ returned # NoSnapshot
           /\ Len(calls) = 3

C3_Witness ==
    /\ Len(calls) = 3
    /\ RefreshFailed(calls[1], "UnauthorizedError")
    /\ LoginOk(calls[2])
    /\ RefreshTransient(calls[3])
    /\ HadPrior
    /\ outcome = "stale"

\* C4: initial refresh UnauthorizedError, both re-logins fail with an
\* AuthError carrying the site-down signature, prior snapshot present: the
\* cycle returns the cached snapshot and raises no ConfigEntryAuthFailed.
C4_NullCookieIsStale ==
    ( /\ UnauthorizedThenTwoLogins
      /\ LoginSiteDown(calls[2])
      /\ LoginSiteDown(calls[3])
      /\ HadPrior )
        => /\ NoCallPending
           /\ outcome = "stale"
           /\ data = DEVICES
           /\ returned # NoSnapshot

C4_Witness ==
    /\ UnauthorizedThenTwoLogins
    /\ LoginSiteDown(calls[2])
    /\ LoginSiteDown(calls[3])
    /\ HadPrior
    /\ outcome = "stale"

\* C5 (as stated): ConfigEntryAuthFailed is raised only by a cycle in which
\* two consecutive re-logins both failed with a genuine AuthError; a cycle
\* whose first re-login failure carried the site-down signature never
\* raises it.
C5_Original ==
    outcome = "ConfigEntryAuthFailed"
        => /\ UnauthorizedThenTwoLogins
           /\ LoginGenuine(calls[2])
           /\ LoginGenuine(calls[3])

\* C5 (amended): ConfigEntryAuthFailed is raised only by a cycle in which
\* two consecutive re-logins both failed with an AuthError and the second
\* failure was genuine (no site-down signature); the first failure may
\* carry the signature.
C5_AuthFailedOnlyAfterTwoAuthErrors ==
    outcome = "ConfigEntryAuthFailed"
        => /\ Len(calls) = 3
           /\ RefreshFailed(calls[1], "UnauthorizedError")
           /\ LoginAuthError(calls[2])
           /\ LoginGenuine(calls[3])

C5_Witness ==
    /\ outcome = "ConfigEntryAuthFailed"
    /\ Len(calls) = 3
    /\ LoginSiteDown(calls[2])
    /\ LoginGenuine(calls[3])

\* The cycle has ended on a failure that the code hands to the serve-stale
\* policy: a transient error of any call, a malformed response of the
\* initial refresh, or a site-down AuthError of the second re-login.
EndedInStalePolicy ==
    /\ CycleOver
    /\ Len(calls) >= 1
    /\ LET last == calls[Len(calls)] IN
          \/ RefreshTransient(last)
          \/ LoginTransient(last)
          \/ Len(calls) = 1 /\ RefreshFailed(last, "UnexpectedResponse")
          \/ Len(calls) = 3 /\ LoginAuthError(calls[2]) /\ LoginSiteDown(last)

\* C6: without a prior snapshot, a cycle that resolves to the serve-stale
\* policy fails with UpdateFailed, never with ConfigEntryAuthFailed, and
\* returns nothing.
C6_NoPriorGivesUpdateFailed ==
    (EndedInStalePolicy /\ ~HadPrior)
        => /\ outcome = "UpdateFailed"
           /\ returned = NoSnapshot
           /\ data = NULL

C6_Witness ==
    /\ EndedInStalePolicy
    /\ ~HadPrior
    /\ Len(calls) = 3
    /\ LoginSiteDown(calls[3])
    /\ outcome = "UpdateFailed"

\* C7: once coordinator.data is not None, no step makes it None again: every
\* cycle, also one that raises, leaves it or stores the devices again.
C7_SnapshotNeverNulled == [][data # NULL => data' = DEVICES]_vars

C7_Witness ==
    /\ data # NULL
    /\ HadPrior
    /\ outcome = "ConfigEntryAuthFailed"

\* C8: for every combination of client responses, a cycle ends by returning
\* a snapshot or by raising ConfigEntryAuthFailed or UpdateFailed; no other
\* error leaves it.
C8_OnlyTwoErrorsLeave ==
    CycleOver
        => outcome \in {"fresh", "stale", "skipped", "ConfigEntryAuthFailed", "UpdateFailed"}

\* C9: initial refresh UnauthorizedError, first re-login ok, retried refresh
\* UnauthorizedError again: the cycle calls login a second time and then
\* refreshes a second time before it produces an outcome.
C9_SecondUnauthorizedRelogins ==
    ( /\ Len(calls) >= 3
      /\ RefreshFailed(calls[1], "UnauthorizedError")
      /\ LoginOk(calls[2])
      /\ RefreshFailed(calls[3], "UnauthorizedError")
      /\ CycleOver )
        => /\ Len(calls) >= 5
           /\ calls[4].op = "login"
           /\ calls[5].op = "refresh"

\* C10: initial refresh UnauthorizedError, first re-login AuthError, second
\* re-login ok, refresh after it ok: the cycle ends as a successful update
\* with the freshly refreshed devices, raises nothing, and has called login
\* exactly twice.
C10_SecondLoginRecovers ==
    ( /\ Len(calls) >= 4
      /\ RefreshFailed(calls[1], "UnauthorizedError")
      /\ LoginAuthError(calls[2])
      /\ LoginOk(calls[3])
      /\ RefreshOk(calls[4]) )
        => /\ NoCallPending
           /\ outcome = "fresh"
           /\ data = DEVICES
           /\ returned # NoSnapshot
           /\ Len(calls) = 4

C10_Witness ==
    /\ Len(calls) = 4
    /\ RefreshFailed(calls[1], "UnauthorizedError")
    /\ LoginAuthError(calls[2])
    /\ LoginOk(calls[3])
    /\ RefreshOk(calls[4])
    /\ HadPrior
    /\ outcome = "fresh"

\* The first re-login failed with an AuthError and the second re-login
\* attempt then failed with a transient error, in its login or its refresh.
SecondAttemptTransient ==
    /\ Len(calls) >= 3
    /\ RefreshFailed(calls[1], "UnauthorizedError")
    /\ LoginAuthError(calls[2])
    /\ \/ LoginTransient(calls[3])
       \/ LoginOk(calls[3]) /\ Len(calls) >= 4 /\ RefreshTransient(calls[4])

\* C11: a transient error of either step of the second re-login attempt,
\* after the first re-login failed with an AuthError, ends the cycle with
\* the cached snapshot when there is one (UpdateFailed when there is none),
\* never with ConfigEntryAuthFailed.
C11_SecondAttemptTransientIsStale ==
    SecondAttemptTransient
        => /\ NoCallPending
           /\ outcome # "ConfigEntryAuthFailed"
           /\ HadPrior => (outcome = "stale" /\ data = DEVICES /\ returned # NoSnapshot)
           /\ ~HadPrior => outcome = "UpdateFailed"

C11_Witness ==
    /\ SecondAttemptTransient
    /\ Len(calls) = 4
    /\ RefreshTransient(calls[4])
    /\ HadPrior
    /\ outcome = "stale"

\* C12: a malformed response (UnexpectedResponse) of any refresh of a cycle,
\* the initial one or one retried after a re-login, is handled like a
\* transient error: cached snapshot with a prior snapshot, UpdateFailed
\* without.
C12_MalformedIsTransient ==
    ( /\ Len(calls) >= 1
      /\ RefreshFailed(calls[Len(calls)], "UnexpectedResponse") )
        => /\ NoCallPending
           /\ HadPrior => outcome = "stale"
           /\ ~HadPrior => outcome = "UpdateFailed"

\* C13: with a snapshot stored, a tick whose refresh fails transiently right
\* after a tick that returned a snapshot (the successful one or an earlier
\* failing one) returns that same snapshot and reports no update failure.
C13_TransientTicksReturnSameSnapshot ==
    ( /\ Len(calls) >= 1
      /\ RefreshTransient(calls[1])
      /\ HadPrior
      /\ prev.outcome \in {"fresh", "stale"} )
        => /\ CycleOver
           /\ outcome = "stale"
           /\ returned = prev.returned

LoginCalls == {i \in DOMAIN calls : calls[i].op = "login"}

RefreshCalls == {i \in DOMAIN calls : calls[i].op = "refresh"}

\* Refresh rounds the cycle has started: the resolved ones and the running one.
RoundsStarted == Cardinality(RefreshCalls) + (IF pc = "gather" THEN 1 ELSE 0)

\* C14: nothing is latched across ticks: the cycle after one that served
\* stale data starts at the initial refresh, and if that refresh succeeds it
\* returns the freshly refreshed devices without any login call.
C14_NoFailureLatched ==
    prev.outcome = "stale"
        => /\ calls = <<>> => (pc = "gather" /\ stage = 0 /\ awaited # {})
           /\ (Len(calls) >= 1 /\ RefreshOk(calls[1]))
                => /\ NoCallPending
                   /\ outcome = "fresh"
                   /\ data = DEVICES
                   /\ returned # NoSnapshot
                   /\ LoginCalls = {}
                   /\ Len(calls) = 1

C14_Witness ==
    /\ prev.outcome = "stale"
    /\ Len(calls) = 1
    /\ RefreshOk(calls[1])
    /\ outcome = "fresh"

\* C15: in every cycle, whatever the client answers, login is called at most
\* twice and at most three refresh rounds are started.
C15_LadderIsBounded ==
    /\ Cardinality(LoginCalls) <= 2
    /\ RoundsStarted <= 3

C15_Witness ==
    /\ Cardinality(LoginCalls) = 2
    /\ RoundsStarted = 2
    /\ CycleOver

\* C16: provided every login and refresh call returns or raises, a cycle
\* that has started eventually ends with one of the four outcomes fresh
\* snapshot, stale snapshot, ConfigEntryAuthFailed, UpdateFailed.
C16_CycleEndsInFourOutcomes ==
    (pc # "idle")
        ~> (pc = "idle" /\ outcome \in {"fresh", "stale", "ConfigEntryAuthFailed", "UpdateFailed"})

\* C17: the first cycle, run by setup right after discovery, is skipped and
\* calls refresh on no device; the tick after it calls refresh once per
\* device.
C17_FirstCycleSkipped ==
    /\ prev.outcome = "none"
        => /\ pc = "idle"
           /\ calls = <<>>
           /\ outcome \in {"none", "skipped"}
           /\ \A d \in Devices : inflight[d] = 0
    /\ (prev.outcome = "skipped" /\ calls = <<>>)
        => /\ pc = "gather"
           /\ \A d \in Devices : inflight[d] = 1

\* ------------------------------------------ humidifier entities: steps
\* humidifier.async_setup_entry: the platform reads each device's capability
\* flags (hum and dehum are the devices that have the one and the other) and
\* adds one entity per capability a device has.
humidifier_async_setup_entry(hum, dehum) ==
    /\ ~hum_loaded
    /\ hum_loaded' = TRUE
    /\ has_humidifier' = [d \in Devices |-> d \in hum]
    /\ has_dehumidifier' = [d \in Devices |-> d \in dehum]
    /\ hum_entities' = {HumidifierEntity(d, HUMIDIFIER_KEY) : d \in hum}
                           \cup {HumidifierEntity(d, DEHUMIDIFIER_KEY) : d \in dehum}
    /\ UNCHANGED <<hum_cmd, hum_calls, hum_raised, hum_result>>
    /\ UNCHANGED poll_vars
    /\ UNCHANGED climate_vars
    /\ UNCHANGED setup_vars

\* A service handler of entity e: the mutator its description binds to the
\* service is awaited once and answers r; an error among those caught is
\* raised as HomeAssistantError, any other goes through as it is.
HumidifierService(e, service, r) ==
    /\ e \in hum_entities
    /\ hum_cmd' = <<e, service>>
    /\ hum_calls' = <<[device |-> e.device, fn |-> HUMIDIFIERS(e.key, service)]>>
    /\ hum_raised' = (r # "ok")
    /\ hum_result' = (IF r = "ok" THEN "ok"
                      ELSE IF r \in HumidifierCaught THEN "HomeAssistantError"
                      ELSE r)
    /\ UNCHANGED <<has_humidifier, has_dehumidifier, hum_loaded, hum_entities>>
    /\ UNCHANGED poll_vars
    /\ UNCHANGED climate_vars
    /\ UNCHANGED setup_vars

\* HoneywellHumidifier.async_turn_on
async_turn_on(e, r) == HumidifierService(e, "turn_on", r)

\* HoneywellHumidifier.async_turn_off
async_turn_off(e, r) == HumidifierService(e, "turn_off", r)

\* HoneywellHumidifier.async_set_humidity
async_set_humidity(e, r) == HumidifierService(e, "set_humidity", r)

\* The humidifier platform on its own, with every combination of
\* capabilities the devices may have.
HumidifierNext ==
    \/ \E hum \in SUBSET Devices, dehum \in SUBSET Devices :
            humidifier_async_setup_entry(hum, dehum)
    \/ \E e \in HumidifierEntities, r \in HumidifierAnswers : async_turn_on(e, r)
    \/ \E e \in HumidifierEntities, r \in HumidifierAnswers : async_turn_off(e, r)
    \/ \E e \in HumidifierEntities, r \in HumidifierAnswers : async_set_humidity(e, r)

HumidifierSpec == Init /\ [][HumidifierNext]_vars

\* The coordinator's first cycles (the one that has no snapshot yet and the
\* one after it) interleaved with the services of the humidifier of device
\* d1; the platform is set up once the first refresh has given a snapshot.
PollingHumidifierNext ==
    \/ (prev.outcome = "none" /\ Tick)
    \/ \E d \in Devices, r \in RefreshResponses : TaskDone(d, r)
    \/ \E d \in Devices, r \in RefreshResponses : OrphanDone(d, r)
    \/ \E r \in LoginResponses : Login(r)
    \/ (data # NULL /\ humidifier_async_setup_entry({"d1"}, {}))
    \/ \E e \in HumidifierEntities, r \in HumidifierAnswers : async_turn_on(e, r)
    \/ \E e \in HumidifierEntities, r \in HumidifierAnswers : async_turn_off(e, r)
    \/ \E e \in HumidifierEntities, r \in HumidifierAnswers : async_set_humidity(e, r)

PollingHumidifierSpec == Init /\ [][PollingHumidifierNext]_vars

\* ------------------------------------------- vocabulary: climate entity
HoldActive == IsHold(StatusHeat, StatusCool)

LastCmd == IF cmds = <<>> THEN "" ELSE cmds[Len(cmds)]

\* The last preset commands were AWAY, NONE, AWAY, in that order.
ToggledBackToAway ==
    /\ Len(cmds) >= 3
    /\ SubSeq(cmds, Len(cmds) - 2, Len(cmds)) = <<"away", "none", "away">>

\* The calls an AWAY command sends in the current mode when none fails.
AwayCallsOf(m) == [i \in DOMAIN Circuits(m) |-> AwayCall(Circuits(m)[i])]

\* C18: once preset NONE was the last command, the away-hold memory is clear;
\* and after the preset commands AWAY, NONE, AWAY, the last one accepted and
\* no other command given since, with any polls in between and no poll
\* reporting "no hold" since, the second AWAY was applied (its hold calls
\* were sent and the memory is set) and the preset reported for a snapshot
\* showing the hold is AWAY.
C18_NoneClearsAwayMemory ==
    /\ LastCmd = "none" => ~away_hold
    /\ (ToggledBackToAway /\ last_cmd = "away" /\ cmd_result = "ok"
            /\ since # "nohold")
        => /\ away_hold
           /\ HoldActive => state_preset = "away"
           /\ fresh => mutator_calls = AwayCallsOf(system_mode)

C18_Witness ==
    /\ ToggledBackToAway
    /\ last_cmd = "away"
    /\ cmd_result = "ok"
    /\ since = "cmd"
    /\ HoldActive
    /\ mutator_calls # <<>>
    /\ away_hold
    /\ state_preset = "away"

\* C19: when a poll has been processed since the last preset command and the
\* latest snapshot shows no hold, the away-hold memory is clear and the
\* reported preset is NONE; and once a poll since the last command reported
\* no hold, the memory stays clear whatever later polls report.
C19_NoHoldResetsAwayMemory ==
    /\ (since # "cmd" /\ ~HoldActive) => (~away_hold /\ state_preset = "none")
    /\ since = "nohold" => ~away_hold

\* An accepted AWAY set the memory, then a poll reported no hold.
C19_Witness ==
    /\ LastCmd = "away"
    /\ cmd_result = "ok"
    /\ mutator_calls # <<>>
    /\ since = "nohold"
    /\ ~HoldActive
    /\ ~away_hold
    /\ state_preset = "none"

\* How many of the last command's mutator calls are the call c.
TimesCalled(c) == Cardinality({i \in DOMAIN mutator_calls : mutator_calls[i] = c})

PresetJustCommanded == last_cmd \in PresetCommands /\ fresh

\* C21: a preset command (AWAY, HOLD or NONE) given while the operating mode
\* is not a known one fails with HomeAssistantError and calls no mutator.
C21_UnknownModeFailsPresets ==
    (PresetJustCommanded /\ system_mode \notin KnownModes)
        => (cmd_result = "HomeAssistantError" /\ mutator_calls = <<>>)

\* HOLD was commanded in mode "Junk" with hold codes 2 on both circuits.
C21_Witness ==
    /\ last_cmd = "hold"
    /\ fresh
    /\ system_mode = "Junk"
    /\ StatusHeat = 2
    /\ StatusCool = 2
    /\ cmd_result = "HomeAssistantError"
    /\ mutator_calls = <<>>

\* The snapshot the last command read is still the latest one.
JustCommanded == last_cmd # "" /\ fresh

PairInAutoNoHold ==
    /\ last_cmd = "temperature_pair"
    /\ fresh
    /\ system_mode = "auto"
    /\ ~HoldActive

IsTemporaryHold(c) == "until" \in DOMAIN c

IsBareSetpoint(c) == c.fn \in {"set_setpoint_cool", "set_setpoint_heat"}

\* C23 as stated: a low/high pair set in mode auto with no hold active, when
\* accepted, has issued one temporary-hold-with-setpoint call on the cool
\* circuit and one on the heat circuit, and no bare setpoint call.
C23_Original ==
    (PairInAutoNoHold /\ cmd_result = "ok")
        => /\ Len(mutator_calls) = 2
           /\ \A i \in DOMAIN mutator_calls : IsTemporaryHold(mutator_calls[i])
           /\ \E i \in DOMAIN mutator_calls : mutator_calls[i].fn = "set_hold_cool"
           /\ \E i \in DOMAIN mutator_calls : mutator_calls[i].fn = "set_hold_heat"

\* C23 amended: a low/high pair set in mode auto with no hold active issues
\* bare setpoint calls only, no hold call; when accepted these are exactly
\* set_setpoint_cool(high) and set_setpoint_heat(low).
C23_PairInAutoSetsSetpoints ==
    PairInAutoNoHold
        => /\ \A i \in DOMAIN mutator_calls : IsBareSetpoint(mutator_calls[i])
           /\ cmd_result = "ok"
                => \E low \in Temperatures, high \in Temperatures :
                      /\ low < high
                      /\ mutator_calls = <<SetpointCall("set_setpoint_cool", high),
                                           SetpointCall("set_setpoint_heat", low)>>

C23_Witness ==
    /\ PairInAutoNoHold
    /\ cmd_result = "ok"
    /\ mutator_calls = <<SetpointCall("set_setpoint_cool", 25),
                         SetpointCall("set_setpoint_heat", 15)>>

\* A single target was set in mode auto, and the snapshot the command read
\* is still the latest one.
SingleInAuto ==
    /\ last_cmd = "temperature"
    /\ fresh
    /\ system_mode = "auto"

\* C24 as stated: a single target set in mode auto is rejected with a
\* validation error and no mutator has been called.
C24_Original ==
    SingleInAuto => (cmd_result = "ServiceValidationError" /\ mutator_calls = <<>>)

\* C24 amended: a single target set in mode auto never calls a bare setpoint
\* mutator, only temporary holds; it fails with a validation error only after
\* a hold call it sent has raised; with no hold active and no call raising it
\* is accepted, having requested the temporary hold on the cool and then on
\* the heat circuit.
C24_SingleInAutoHoldsOnly ==
    SingleInAuto
        => /\ \A i \in DOMAIN mutator_calls : IsTemporaryHold(mutator_calls[i])
           /\ cmd_result # "ok" => mutator_calls # <<>>
           /\ (~HoldActive /\ cmd_result = "ok")
                => \E t \in Temperatures :
                      mutator_calls = <<TemporaryHoldCall("set_hold_cool", t),
                                        TemporaryHoldCall("set_hold_heat", t)>>

C24_Witness ==
    /\ SingleInAuto
    /\ ~HoldActive
    /\ cmd_result = "ok"
    /\ mutator_calls = <<TemporaryHoldCall("set_hold_cool", 15),
                         TemporaryHoldCall("set_hold_heat", 15)>>

\* The calls of the last command that raised.
FailedCalls == {i \in DOMAIN call_answers : call_answers[i] # "ok"}

\* C25: when a call of a command given in mode auto has raised, it is the
\* only call that raised and the last one sent, the calls sent before it
\* stand (no mutator is called a second time to undo one), and the command
\* ended with one error.
C25_PartialApplicationStands ==
    (JustCommanded /\ system_mode = "auto" /\ FailedCalls # {})
        => /\ FailedCalls = {Len(mutator_calls)}
           /\ \A i \in DOMAIN mutator_calls : \A j \in DOMAIN mutator_calls :
                 i # j => mutator_calls[i].fn # mutator_calls[j].fn
           /\ cmd_result \in {"ServiceValidationError", "HomeAssistantError"}

\* HOLD in auto: the cool circuit's call went through, the heat circuit's
\* raised (test_climate.py l.967-983).
C25_Witness ==
    /\ last_cmd = "hold"
    /\ fresh
    /\ system_mode = "auto"
    /\ mutator_calls = <<HoldOnCall("cool"), HoldOnCall("heat")>>
    /\ call_answers = <<"ok", "SomeComfortError">>
    /\ cmd_result = "HomeAssistantError"

\* The state was last written by a poll: it shows the latest snapshot.
JustPolled == ~fresh

HumidifierCommandStep ==
    <<hum_cmd, hum_calls, hum_raised, hum_result>>'
        # <<hum_cmd, hum_calls, hum_raised, hum_result>>

\* C27: a humidifier or dehumidifier command (turn on, turn off, set
\* humidity) whose mutator fails with a device, timeout or connection error
\* reaches the caller as one HomeAssistantError and leaves the polling side
\* as it was: no login, no refresh, the same snapshot, the same position and
\* outcome of the poll cycle it interleaves with.
C27_FailedCommandLeavesPolling ==
    [][(HumidifierCommandStep /\ hum_raised')
          => /\ hum_result' = "HomeAssistantError"
             /\ Len(hum_calls') = 1
             /\ UNCHANGED poll_vars]_vars

\* A command has failed while a poll cycle that already has a snapshot to
\* keep is in progress.
C27_Witness ==
    /\ hum_raised
    /\ hum_result = "HomeAssistantError"
    /\ data # NULL
    /\ pc # "idle"

\* The mutators of one variant.
VariantMutators(key) ==
    IF key = HUMIDIFIER_KEY
    THEN {"set_humidifier_auto", "set_humidifier_off", "set_humidifier_setpoint"}
    ELSE {"set_dehumidifier_auto", "set_dehumidifier_off", "set_dehumidifier_setpoint"}

\* C28: once the platform is set up, a device has a humidifier entity iff it
\* has the humidifier capability and a dehumidifier entity iff it has the
\* dehumidifier capability; a command on an entity calls exactly one
\* mutator, on the entity's own device and of the entity's own variant.
C28_EntitiesAndMutatorsByVariant ==
    /\ hum_loaded =>
          \A d \in Devices :
              /\ HumidifierEntity(d, HUMIDIFIER_KEY) \in hum_entities
                     <=> has_humidifier[d]
              /\ HumidifierEntity(d, DEHUMIDIFIER_KEY) \in hum_entities
                     <=> has_dehumidifier[d]
    /\ ~hum_loaded => hum_entities = {}
    /\ hum_cmd # NoCommand =>
          /\ hum_cmd[1] \in hum_entities
          /\ Len(hum_calls) = 1
          /\ hum_calls[1].device = hum_cmd[1].device
          /\ hum_calls[1].fn \in VariantMutators(hum_cmd[1].key)

\* One device has both capabilities, another has none, and the
\* dehumidifier of the first has been turned on.
C28_Witness ==
    /\ hum_loaded
    /\ \E d \in Devices : has_humidifier[d] /\ has_dehumidifier[d]
    /\ \E d \in Devices : ~has_humidifier[d] /\ ~has_dehumidifier[d]
    /\ hum_cmd # NoCommand
    /\ hum_cmd[1].key = DEHUMIDIFIER_KEY
    /\ hum_cmd[2] = "turn_on"
    /\ Len(hum_calls) = 1

\* ------------------------------------------- refresh calls in flight
\* C29: when a poll cycle has returned or raised, no device refresh call is
\* still in flight, also when one device's refresh failed while the other
\* refreshes of its round were not finished.
C29_NoRefreshOutlivesCycle ==
    pc = "idle" => \A d \in Devices : inflight[d] = 0

\* C30: at any moment at most one refresh call is in flight per device; a
\* round started after a re-login does not begin a device's refresh while
\* that device's refresh of an earlier round is still running.
C30_AtMostOneRefreshPerDevice ==
    \A d \in Devices : inflight[d] <= 1

\* ------------------------------------------------------- refresh rounds
\* C31: every refresh round a cycle has begun has invoked refresh once on
\* every device of the coordinator, whether or not and whenever another
\* device's refresh of the round failed; with no device a round makes no
\* call and succeeds, so the cycle has returned at once.
C31_RoundRefreshesEveryDeviceOnce ==
    /\ \A d \in devices : started[d] = rounds
    /\ (devices = {} /\ rounds > 0)
          => /\ rounds = 1
             /\ calls = <<>>
             /\ pc = "idle"
             /\ outcome = "fresh"

\* The retry round after a re-login has begun while a refresh of the first
\* round, which another device's failure ended, is still running.
C31_Witness ==
    /\ devices = Devices
    /\ rounds = 2
    /\ pc = "gather"
    /\ \E d \in devices : inflight[d] = 2
    /\ \A d \in devices : started[d] = 2

\* --------------------------------------------------- completion order
\* Two cycles that met the same answers: under a script, the cycle that has
\* just ended and the one before it, both begun with or both without data.
SameAnswersTwice ==
    /\ scripted
    /\ pc = "idle"
    /\ outcome # "none"
    /\ prev.outcome # "none"
    /\ (prior # NoSnapshot) = history.had_data

\* C32: the outcome of a poll cycle and the number of its login calls depend
\* only on the answers the devices give in each round, not on the order in
\* which the refresh calls of a round complete: two cycles that meet the
\* same answers end in the same outcome after the same number of logins.
C32_OutcomeIndependentOfCompletionOrder ==
    SameAnswersTwice
        => /\ outcome = prev.outcome
           /\ LoginCount(calls) = history.logins

\* ------------------------------------------------------ when login runs
\* C33: within a cycle login is called (is running, or has answered) only
\* after the cycle's initial refresh failed with an UnauthorizedError; a
\* cycle whose initial refresh succeeded, or failed with a transient error
\* or a malformed response, has made no login call.
C33_LoginOnlyAfterUnauthorized ==
    /\ (pc = "login" \/ LoginCount(calls) > 0)
          => /\ calls # <<>>
             /\ RefreshFailed(calls[1], "UnauthorizedError")
    /\ (calls # <<>> /\ ~RefreshFailed(calls[1], "UnauthorizedError"))
          => /\ calls[1].op = "refresh"
             /\ Len(calls) = 1
             /\ pc = "idle"

\* A cycle has ended after two logins that followed a 401 of the initial
\* refresh.
C33_Witness ==
    /\ pc = "idle"
    /\ outcome # "none"
    /\ LoginCount(calls) = 2
    /\ RefreshFailed(calls[1], "UnauthorizedError")

\* ------------------------------------------------------ the skip flag
\* C34: a cycle that finds the skip flag set calls neither login nor
\* refresh, returns the devices as they are and clears the flag; no step
\* sets the flag once it is false, only a cycle that found it set is
\* skipped, and the cycle after a skipped one begins a refresh round.
C34_SkipFlagConsumedOnce ==
    [][/\ skip_next_refresh
            => /\ ~skip_next_refresh'
               /\ outcome' = "skipped"
               /\ pc' = "idle"
               /\ calls' = <<>>
               /\ rounds' = 0
               /\ started' = [d \in devices |-> 0]
               /\ inflight' = inflight
               /\ fields' = fields
               /\ data' = DEVICES
               /\ returned' = Snap(fields)
       /\ ~skip_next_refresh => ~skip_next_refresh'
       /\ outcome' = "skipped" => (skip_next_refresh \/ outcome = "skipped")
       /\ prev'.outcome = "skipped" => (rounds' >= 1 /\ outcome' # "skipped")]_vars

\* The cycle after the skipped one has refreshed the devices.
C34_Witness ==
    /\ prev.outcome = "skipped"
    /\ ~skip_next_refresh
    /\ rounds = 1
    /\ outcome = "fresh"
    /\ calls = <<Call("refresh", OK)>>

\* ------------------------------------------------- the set of devices
\* C35: the devices of the coordinator are those it was constructed with:
\* no step adds or removes one, and every cycle that returns a snapshot
\* (fresh, stale or skipped) returns exactly these devices.
C35_DeviceSetFixed ==
    [][/\ devices' = devices
       /\ DOMAIN fields' = devices
       /\ outcome' \in {"fresh", "stale", "skipped"}
            => /\ returned' # NoSnapshot
               /\ DOMAIN returned'[1] = devices]_vars

\* A cycle has returned the cached devices after a refresh failed while the
\* other device's refresh was still running.
C35_Witness ==
    /\ devices = Devices
    /\ outcome = "stale"
    /\ returned # NoSnapshot
    /\ DOMAIN returned[1] = Devices
    /\ \E d \in devices : inflight[d] > 0

\* C36: setup publishes the runtime data only once the coordinator's first
\* refresh has returned without error, and forwards the four platforms only
\* after that; an attempt that ended otherwise than by returning True (login,
\* discovery or the first refresh failed, or no device was found) has
\* published no runtime data and set up no platform.
C36_PublishedOnlyAfterFirstRefresh ==
    /\ runtime_data =>
        /\ setup_pc \in {"forward", "done"}
        /\ pc = "idle"
        /\ outcome \in {"fresh", "stale", "skipped"}
        /\ data # NULL
        /\ devices # {}
        /\ setup_error = ""
    /\ platforms # {} => (runtime_data /\ platforms = PLATFORMS)
    /\ (setup_pc = "done" /\ setup_result # "True") =>
        (~runtime_data /\ platforms = {})
    /\ setup_pc \in {"entry", "login", "discover", "refresh"} =>
        (~runtime_data /\ platforms = {})

\* The second attempt, after a failed first one, has published the runtime
\* data and forwarded the platforms.
C36_Witness ==
    /\ attempts = 2
    /\ setup_result = "True"
    /\ runtime_data
    /\ platforms = PLATFORMS
    /\ outcome = "fresh"

\* C37: a failure of the initial login or discovery ends setup with exactly
\* one outcome: AuthError gives ConfigEntryAuthFailed, and rate limiting,
\* connection errors, timeouts and the other client errors give
\* ConfigEntryNotReady, never the other way round.
C37_SetupFailureMapping ==
    setup_error # "" =>
        /\ setup_pc = "done"
        /\ setup_error = "AuthError" => setup_result = "ConfigEntryAuthFailed"
        /\ setup_error # "AuthError" => setup_result = "ConfigEntryNotReady"
        /\ ~runtime_data

\* Discovery was refused with AuthError, which is also a SomeComfortError,
\* on the second attempt.
C37_Witness ==
    /\ attempts = 2
    /\ setup_error = "AuthError"
    /\ setup_result = "ConfigEntryAuthFailed"
    /\ setup_pc = "done"

\* A step in which _async_migrate_data_to_options ran.
MigrationStep == setup_pc = "entry" /\ setup_pc' = "login"

\* C38: after a migration the entry data holds no away-temperature key,
\* every other data key keeps its value and every away temperature the data
\* held is in the options; a migration of data without such a key, as every
\* migration after the first is, changes neither data nor options.
C38_MigrationLosslessIdempotent ==
    [][MigrationStep =>
        /\ DOMAIN entry_data' \cap MIGRATE_OPTIONS_KEYS = {}
        /\ \A k \in DOMAIN entry_data \ MIGRATE_OPTIONS_KEYS :
            k \in DOMAIN entry_data' /\ entry_data'[k] = entry_data[k]
        /\ \A k \in DOMAIN entry_data \cap MIGRATE_OPTIONS_KEYS :
            k \in DOMAIN entry_options' /\ entry_options'[k] = entry_data[k]
        /\ (DOMAIN entry_data \cap MIGRATE_OPTIONS_KEYS = {} \/ attempts >= 1) =>
            UNCHANGED <<entry_data, entry_options>>
    ]_vars

\* The migration has run a second time on an entry whose first migration
\* moved an away temperature.
C38_Witness ==
    /\ attempts = 2
    /\ setup_pc = "login"
    /\ migrated # {}
    /\ \A k \in migrated : entry_options[k] \in EntryValues
    /\ DOMAIN entry_data = {CONF_USERNAME}

\* C39: a migration of data that holds only one of the two away-temperature
\* keys leaves the option stored under the other key as it was.
C39_MigrationKeepsOtherOption ==
    [][(MigrationStep /\ Cardinality(DOMAIN entry_data \cap MIGRATE_OPTIONS_KEYS) = 1) =>
        \A k \in (MIGRATE_OPTIONS_KEYS \cap DOMAIN entry_options) \ DOMAIN entry_data :
            k \in DOMAIN entry_options' /\ entry_options'[k] = entry_options[k]
    ]_vars

====
